---- MODULE Spec2Model ----
(***************************************************************************)
(* Model of the local intent-understanding engine of Airline-Assistant     *)
(* (src/local_nlp.py): the per-session ConversationContext store, alone    *)
(* and under two concurrent callers, the process_message orchestration,    *)
(* the direct calls of predict_intent, fuzzy_match_intent and              *)
(* get_response, the construction of the processor from the files of its   *)
(* working directory, and the regex entity extractor; of the airline data  *)
(* tools (src/airline_api.py): get_airport_code and the MockBookingSystem; *)
(* and of the WebSocket endpoint of the two chat servers (src/airly2.py,   *)
(* src/airly4.py) with the stream_response tasks it creates.               *)
(*                                                                         *)
(* Texts are sequences of one-character strings, so that the regular       *)
(* expressions, str.upper/lower, split, replace and strip of the source    *)
(* are computed character by character.  Str turns such a sequence back    *)
(* into a TLA+ string.  Confidences are kept in hundredths (0.3 is 30).    *)
(***************************************************************************)
EXTENDS Integers, Sequences, FiniteSets, TLC

VARIABLES
    user_contexts,   \* ConversationContext.user_contexts: session id -> context
    updates,         \* history: per session, the update_context calls since creation
    ncalls,          \* history: number of store calls made so far
    lastop,          \* history: the last store call and the store it found
    intents_data,    \* LocalNLPProcessor.intents_data["intents"]
    pc,              \* position of the caller of the processor / extractor
    request,         \* the call being served: session id and message
    result,          \* what process_message returned (or raised)
    steps,           \* history: what predict_intent and fuzzy_match_intent gave
    text,            \* argument of extract_entities
    entities,        \* value returned by extract_entities
    call,            \* the last direct call of a processor method and its outcome
    intents_file,    \* the file intents.json of the working directory
    model_file,      \* the file nlp_model.pkl of the working directory
    pipeline,        \* LocalNLPProcessor.pipeline
    events,          \* history: what the running constructor did, in order
    boot,            \* history: the two files as the running constructor found them
    nstarts,         \* history: number of constructions so far
    heap,            \* the context dicts allocated so far, by object identity
    refs,            \* user_contexts as the threads see it: session id -> object
    threads,         \* per thread: the call it executes, its position and locals
    store0,          \* history: the store as the concurrent calls found it
    booking_table,   \* MockBookingSystem.bookings: booking id -> booking
    server,          \* which server program runs: airly2 or airly4
    websocket,       \* the connection and the position of its websocket_endpoint
    active_tasks,    \* the servers' active_tasks: session id -> task
    tasks,           \* the stream_response tasks created so far, by creation order
    message_history, \* the connection's message_history, by the task that extended it
    trace            \* history: what was received from and sent to the client, in order

storeVars == <<user_contexts, updates, ncalls, lastop>>
procVars == <<intents_data, request, result, steps>>
extractVars == <<text, entities>>
callVars == <<call>>
bootVars == <<intents_file, model_file, pipeline, events, boot, nstarts>>
threadVars == <<heap, refs, threads, store0>>
bookingVars == <<booking_table>>
serverVars == <<server, websocket, active_tasks, tasks, message_history, trace>>
appVars == <<bookingVars, serverVars>>
otherVars == <<callVars, bootVars, threadVars, appVars>>

vars == <<storeVars, procVars, extractVars, otherVars, pc>>

None == "<None>"

(***************************************************************************)
(* Bounds of the model.                                                    *)
(***************************************************************************)
MaxCalls == 11        \* store calls in one behaviour
MaxWords == 3         \* words of a generated text
MaxStarts == 3        \* constructions of the processor in one behaviour
MaxBookings == 4      \* create_booking calls in one behaviour
MaxReceived == 3      \* messages received on the connection
MaxTasks == 2         \* chat messages received on the connection
MaxChunks == 1        \* chunks of one response stream

(***************************************************************************)
(* Generic helpers.                                                        *)
(***************************************************************************)
Min(a, b) == IF a < b THEN a ELSE b

\* Python's seq[-n:] for n > 0
LastN(seq, n) == IF Len(seq) <= n THEN seq ELSE SubSeq(seq, Len(seq) - n + 1, Len(seq))

EmptyDict == [k \in {} |-> <<>>]

(***************************************************************************)
(* Characters and strings.  The alphabet is ASCII letters, digits, the     *)
(* underscore, the space and some punctuation; the space is the only       *)
(* whitespace character.                                                   *)
(***************************************************************************)
UPPER == <<"A","B","C","D","E","F","G","H","I","J","K","L","M",
           "N","O","P","Q","R","S","T","U","V","W","X","Y","Z">>
LOWER == <<"a","b","c","d","e","f","g","h","i","j","k","l","m",
           "n","o","p","q","r","s","t","u","v","w","x","y","z">>

UpperSet == {UPPER[i] : i \in 1..Len(UPPER)}
LowerSet == {LOWER[i] : i \in 1..Len(LOWER)}
DigitSet == {"0","1","2","3","4","5","6","7","8","9"}

UpperOf == [c \in LowerSet |-> UPPER[CHOOSE i \in 1..Len(LOWER) : LOWER[i] = c]]
LowerOf == [c \in UpperSet |-> LOWER[CHOOSE i \in 1..Len(UPPER) : UPPER[i] = c]]

\* str.upper() and str.lower()
upper(s) == [i \in 1..Len(s) |-> IF s[i] \in LowerSet THEN UpperOf[s[i]] ELSE s[i]]
lower(s) == [i \in 1..Len(s) |-> IF s[i] \in UpperSet THEN LowerOf[s[i]] ELSE s[i]]

\* the TLA+ string spelled by a sequence of characters
RECURSIVE Str(_)
Str(s) == IF s = <<>> THEN "" ELSE Head(s) \o Str(Tail(s))

Strs(seqs) == [i \in 1..Len(seqs) |-> Str(seqs[i])]

SetMax(S) == CHOOSE x \in S : \A y \in S : y <= x

\* regex \w
IsWordChar(c) == c \in UpperSet \cup LowerSet \cup DigitSet \cup {"_"}

\* regex \b at the position between s[p] and s[p+1] (p in 0..Len(s))
WordBoundary(s, p) ==
    (p >= 1 /\ IsWordChar(s[p])) # (p < Len(s) /\ IsWordChar(s[p + 1]))

\* the number of consecutive characters of class C starting at s[i]
RECURSIVE Run(_, _, _)
Run(s, i, C) == IF i <= Len(s) /\ s[i] \in C THEN 1 + Run(s, i + 1, C) ELSE 0

\* str.find(sub, start): first index >= from where sub occurs in s, 0 if none
Find(s, sub, from) ==
    LET hits == {i \in from..(Len(s) - Len(sub) + 1) :
                    SubSeq(s, i, i + Len(sub) - 1) = sub}
    IN  IF hits = {} THEN 0 ELSE CHOOSE i \in hits : \A j \in hits : i <= j

\* str.split(sep) with a non-empty separator
RECURSIVE split(_, _)
split(s, sep) ==
    LET i == Find(s, sep, 1)
    IN  IF i = 0 THEN <<s>>
        ELSE <<SubSeq(s, 1, i - 1)>> \o split(SubSeq(s, i + Len(sep), Len(s)), sep)

\* str.replace(old, '')
RECURSIVE remove(_, _)
remove(s, old) ==
    LET i == Find(s, old, 1)
    IN  IF i = 0 THEN s
        ELSE SubSeq(s, 1, i - 1) \o remove(SubSeq(s, i + Len(old), Len(s)), old)

\* str.strip()
strip(s) ==
    LET keep == {i \in 1..Len(s) : s[i] # " "}
    IN  IF keep = {} THEN <<>>
        ELSE SubSeq(s, CHOOSE i \in keep : \A j \in keep : i <= j, SetMax(keep))

\* str.split(): the maximal runs of non-whitespace characters
RECURSIVE words(_)
words(s) ==
    LET t == strip(s)
        i == Find(t, <<" ">>, 1)
    IN  IF t = <<>> THEN <<>>
        ELSE IF i = 0 THEN <<t>>
        ELSE <<SubSeq(t, 1, i - 1)>> \o words(SubSeq(t, i + 1, Len(t)))

\* str.capitalize()
capitalize(w) ==
    IF w = <<>> THEN w ELSE upper(<<Head(w)>>) \o lower(Tail(w))

\* ' '.join(seq)
RECURSIVE join(_)
join(ws) ==
    IF ws = <<>> THEN <<>>
    ELSE IF Len(ws) = 1 THEN ws[1]
    ELSE ws[1] \o <<" ">> \o join(Tail(ws))

(***************************************************************************)
(* extract_entities (src/local_nlp.py 175-224).                            *)
(***************************************************************************)
\* r'\b[A-Z]{2}\d{1,4}\b' tried at index i: last index of the match, 0 if none
FlightMatchEnd(s, i) ==
    LET ks == {k \in 1..4 : /\ Run(s, i + 2, DigitSet) >= k
                            /\ WordBoundary(s, i + 1 + k)}
    IN  IF /\ WordBoundary(s, i - 1)
           /\ Run(s, i, UpperSet) >= 2
           /\ ks # {}
        THEN i + 1 + SetMax(ks)
        ELSE 0

\* r'\b[A-Z]{3}\b'
AirportMatchEnd(s, i) ==
    IF /\ WordBoundary(s, i - 1)
       /\ Run(s, i, UpperSet) >= 3
       /\ WordBoundary(s, i + 2)
    THEN i + 2
    ELSE 0

\* r'\b[A-Z0-9]{6,8}\b'
BookingMatchEnd(s, i) ==
    LET ks == {k \in 6..8 : /\ Run(s, i, UpperSet \cup DigitSet) >= k
                            /\ WordBoundary(s, i + k - 1)}
    IN  IF WordBoundary(s, i - 1) /\ ks # {}
        THEN i + SetMax(ks) - 1
        ELSE 0

\* every index where [A-Z][a-z]{2,}(?: [A-Z][a-z]{2,})*\b can end when it
\* starts at i (all backtracking choices of the two quantifiers)
RECURSIVE CityEnds(_, _)
CityEnds(s, i) ==
    IF i > Len(s) \/ s[i] \notin UpperSet THEN {}
    ELSE UNION { (IF WordBoundary(s, e) THEN {e} ELSE {})
                 \cup (IF e < Len(s) /\ s[e + 1] = " " THEN CityEnds(s, e + 2) ELSE {})
                 : e \in {i + l : l \in 2..Run(s, i + 1, LowerSet)} }

\* r'\b[A-Z][a-z]{2,}(?: [A-Z][a-z]{2,})*\b': the greedy quantifiers take the
\* longest of the possible ends
CityMatchEnd(s, i) ==
    IF WordBoundary(s, i - 1) /\ CityEnds(s, i) # {}
    THEN SetMax(CityEnds(s, i))
    ELSE 0

MatchEnd(pattern, s, i) ==
    CASE pattern = "flight_pattern"  -> FlightMatchEnd(s, i)
      [] pattern = "airport_pattern" -> AirportMatchEnd(s, i)
      [] pattern = "booking_pattern" -> BookingMatchEnd(s, i)
      [] pattern = "city_pattern"    -> CityMatchEnd(s, i)

\* re.findall(pattern, s): the non-overlapping matches, scanning left to right
RECURSIVE FindAllFrom(_, _, _)
FindAllFrom(pattern, s, i) ==
    IF i > Len(s) THEN <<>>
    ELSE LET e == MatchEnd(pattern, s, i)
         IN  IF e = 0 THEN FindAllFrom(pattern, s, i + 1)
             ELSE <<Str(SubSeq(s, i, e))>> \o FindAllFrom(pattern, s, e + 1)

findall(pattern, s) == FindAllFrom(pattern, s, 1)

\* [x for x in seq if x not in excluded]
Without(seq, excluded) == SelectSeq(seq, LAMBDA x : x \notin excluded)

ToSet(seq) == {seq[i] : i \in 1..Len(seq)}

common_codes == {"FOR", "AND", "THE", "FROM"}

common_words == {"Flight", "From", "Book", "Find", "Check", "When", "What",
                 "Where", "How"}

SEP_TO == <<" ", "t", "o", " ">>
FLIGHTS_FROM == <<"f","l","i","g","h","t","s"," ","f","r","o","m">>
FLIGHT_FROM == <<"f","l","i","g","h","t"," ","f","r","o","m">>

\* lines 179-183
FlightEntities(txt) ==
    LET flights == findall("flight_pattern", upper(txt))
    IN  IF flights # <<>> THEN [flight_numbers |-> flights] ELSE EmptyDict

\* lines 185-191
AirportEntities(txt) ==
    LET airports == findall("airport_pattern", upper(txt))
    IN  IF airports # <<>>
        THEN [airport_codes |-> Without(airports, common_codes)]
        ELSE EmptyDict

\* the booking references without the flight-number filter
BookingEntitiesUnfiltered(txt, sofar) ==
    LET bookings == findall("booking_pattern", upper(txt))
    IN  IF bookings # <<>> THEN [booking_refs |-> bookings] ELSE EmptyDict

\* lines 193-199
BookingEntities(txt, sofar) ==
    LET bookings == findall("booking_pattern", upper(txt))
        existing_flights ==
            IF "flight_numbers" \in DOMAIN sofar
            THEN ToSet(sofar["flight_numbers"]) ELSE {}
    IN  IF bookings # <<>>
        THEN [booking_refs |-> Without(bookings, existing_flights)]
        ELSE EmptyDict

\* ' '.join(word.capitalize() for word in s.split())
TitleCase(s) ==
    LET ws == words(s)
    IN  Str(join([i \in 1..Len(ws) |-> capitalize(ws[i])]))

\* lines 202-221
CityEntities(txt) ==
    LET lower_text == lower(txt)
    IN  IF Find(lower_text, SEP_TO, 1) # 0
        THEN LET parts == split(lower_text, SEP_TO)
                 departure_str == strip(remove(remove(parts[1], FLIGHTS_FROM), FLIGHT_FROM))
                 arrival_str == strip(parts[2])
             IN  IF departure_str # <<>> /\ arrival_str # <<>>
                 THEN [cities |-> <<TitleCase(departure_str), TitleCase(arrival_str)>>]
                 ELSE EmptyDict
        ELSE LET cities == findall("city_pattern", txt)
                 kept == Without(cities, common_words)
             IN  IF cities # <<>> /\ kept # <<>>
                 THEN [cities |-> kept]
                 ELSE EmptyDict

extract_entities(txt) ==
    LET e1 == FlightEntities(txt)
        e2 == AirportEntities(txt) @@ e1
        e3 == BookingEntities(txt, e2) @@ e2
    IN  CityEntities(txt) @@ e3

(***************************************************************************)
(* ConversationContext (src/local_nlp.py 278-312).                         *)
(***************************************************************************)
SessionIds == {"s1", "s2"}

\* "Keep only last 10 interactions"
MAX_HISTORY == 10

\* the (intent, entities, user_message) triples callers pass to update_context
Turns ==
    { [intent |-> "greeting", entities |-> EmptyDict, user_message |-> "hello"],
      [intent |-> None, entities |-> [flight_numbers |-> <<"AA123">>],
       user_message |-> "AA123 ?"] }

NewContext ==
    [previous_intent |-> None, entities_history |-> <<>>,
     conversation_flow |-> <<>>, user_data |-> EmptyDict]

\* the dict after get_context(session_id): the entry is created when missing
\* get_context replacing the stored context with a new one on every call
get_contextReset(contexts, session_id) ==
    [s \in DOMAIN contexts \cup {session_id} |->
        IF s = session_id THEN NewContext ELSE contexts[s]]

get_context(contexts, session_id) ==
    IF session_id \in DOMAIN contexts
    THEN contexts
    ELSE (session_id :> NewContext) @@ contexts

\* update_context keeping the first 10 entries instead of the last 10
UpdatedContextKeepOldest(context, intent, ents, user_message) ==
    LET flow == Append(context.conversation_flow,
                       [user_message |-> user_message, intent |-> intent,
                        entities |-> ents])
        hist == Append(context.entities_history, ents)
    IN  [context EXCEPT !.previous_intent = intent,
                        !.conversation_flow = SubSeq(flow, 1, Min(Len(flow), 10)),
                        !.entities_history = SubSeq(hist, 1, Min(Len(hist), 10))]

\* update_context truncating conversation_flow only
UpdatedContextFlowOnly(context, intent, ents, user_message) ==
    [context EXCEPT !.previous_intent = intent,
                    !.conversation_flow =
                        LastN(Append(@, [user_message |-> user_message,
                                         intent |-> intent, entities |-> ents]), 10),
                    !.entities_history = Append(@, ents)]

\* the context after the body of update_context ran on it
UpdatedContext(context, intent, ents, user_message) ==
    LET flow == Append(context.conversation_flow,
                       [user_message |-> user_message, intent |-> intent,
                        entities |-> ents])
        hist == Append(context.entities_history, ents)
    IN  IF Len(flow) > MAX_HISTORY
        THEN [context EXCEPT !.previous_intent = intent,
                             !.conversation_flow = LastN(flow, MAX_HISTORY),
                             !.entities_history = LastN(hist, MAX_HISTORY)]
        ELSE [context EXCEPT !.previous_intent = intent,
                             !.conversation_flow = flow,
                             !.entities_history = hist]

update_context(contexts, session_id, intent, ents, user_message) ==
    LET created == get_context(contexts, session_id)
    IN  [created EXCEPT ![session_id] =
            UpdatedContext(created[session_id], intent, ents, user_message)]

\* clear_context emptying the whole store
clear_contextAll(contexts, session_id) ==
    IF session_id \in DOMAIN contexts THEN EmptyDict ELSE contexts

clear_context(contexts, session_id) ==
    IF session_id \in DOMAIN contexts
    THEN [s \in DOMAIN contexts \ {session_id} |-> contexts[s]]
    ELSE contexts

NoSteps == [normalized |-> FALSE,
            predicted |-> [intent |-> None, confidence |-> 0],
            fuzzy_called |-> FALSE,
            fuzzy |-> [intent |-> None, confidence |-> 0]]

NoOp == [op |-> "none", session_id |-> None, before |-> EmptyDict]

StoreUnused ==
    /\ user_contexts = EmptyDict
    /\ updates = [s \in SessionIds |-> <<>>]
    /\ ncalls = 0
    /\ lastop = NoOp

ProcessorUnused ==
    /\ intents_data = <<>>
    /\ request = [session_id |-> None, message |-> <<>>]
    /\ result = [status |-> "none"]
    /\ steps = NoSteps

ExtractorUnused ==
    /\ text = <<>>
    /\ entities = EmptyDict

NoCall == [fn |-> "none"]

CallUnused == call = NoCall

\* a file that does not exist, and the file holding some content
NoFile == [exists |-> FALSE, content |-> <<>>]
FileOf(content) == [exists |-> TRUE, content |-> content]

\* self.pipeline = None
NoPipeline == [present |-> FALSE, trained_on |-> <<>>]

BootUnused ==
    /\ intents_file = NoFile
    /\ model_file = NoFile
    /\ pipeline = NoPipeline
    /\ events = <<>>
    /\ boot = [intents_file |-> NoFile, model_file |-> NoFile]
    /\ nstarts = 0

Threads == {"t1", "t2"}

\* a thread that has not called the store
IdleThread == [pc |-> "idle", op |-> "none", context |-> 0, tmp |-> <<>>]

ThreadsUnused ==
    /\ heap = <<>>
    /\ refs = EmptyDict
    /\ threads = [t \in Threads |-> IdleThread]
    /\ store0 = EmptyDict

BookingsUnused == booking_table = EmptyDict

ServerUnused ==
    /\ server = "none"
    /\ websocket = [pc |-> "none"]
    /\ active_tasks = EmptyDict
    /\ tasks = <<>>
    /\ message_history = <<>>
    /\ trace = <<>>

AppUnused ==
    /\ BookingsUnused
    /\ ServerUnused

OthersUnused ==
    /\ CallUnused
    /\ BootUnused
    /\ ThreadsUnused
    /\ AppUnused

Init ==
    /\ StoreUnused
    /\ ProcessorUnused
    /\ ExtractorUnused
    /\ OthersUnused
    /\ pc = "store"

GetContext(s) ==
    /\ ncalls < MaxCalls
    /\ user_contexts' = get_context(user_contexts, s)
    /\ lastop' = [op |-> "get_context", session_id |-> s, before |-> user_contexts]
    /\ ncalls' = ncalls + 1
    /\ UNCHANGED <<updates, procVars, extractVars, otherVars, pc>>

UpdateContext(s, t) ==
    /\ ncalls < MaxCalls
    /\ user_contexts' =
          update_context(user_contexts, s, t.intent, t.entities, t.user_message)
    /\ updates' = [updates EXCEPT ![s] = Append(@, t)]
    /\ lastop' = [op |-> "update_context", session_id |-> s, before |-> user_contexts]
    /\ ncalls' = ncalls + 1
    /\ UNCHANGED <<procVars, extractVars, otherVars, pc>>

ClearContext(s) ==
    /\ ncalls < MaxCalls
    /\ user_contexts' = clear_context(user_contexts, s)
    /\ updates' = [updates EXCEPT ![s] = <<>>]
    /\ lastop' = [op |-> "clear_context", session_id |-> s, before |-> user_contexts]
    /\ ncalls' = ncalls + 1
    /\ UNCHANGED <<procVars, extractVars, otherVars, pc>>

Next ==
    \/ \E s \in SessionIds : GetContext(s)
    \/ \E s \in SessionIds, t \in Turns : UpdateContext(s, t)
    \/ \E s \in SessionIds : ClearContext(s)

Spec == Init /\ [][Next]_vars

(***************************************************************************)
(* The texts given to extract_entities: up to MaxWords words of the        *)
(* vocabulary joined by single spaces, and some longer sample sentences.   *)
(***************************************************************************)
Vocabulary ==
    { <<"F","l","i","g","h","t">>,
      <<"A","A","1","2","3">>,
      <<"s","t","a","t","u","s">>,
      <<"b","o","o","k">>,
      <<"B","K","0","0","7">>,
      <<"p","l","e","a","s","e">>,
      <<"t","o">>,
      <<"t","h","e">>,
      <<"A","A","1","2","3","4">>,
      <<"N","e","w">>,
      <<"Y","o","r","k">>,
      <<"J","F","K">>,
      <<"A","B","C","1","2","3">> }

SampleTexts ==
    { <<"f","l","i","g","h","t","s"," ","f","r","o","m"," ","N","e","w"," ","Y","o","r","k"," ","t","o"," ","L","o","s"," ","A","n","g","e","l","e","s">>,
      <<"a"," ","t","o"," ","b"," ","t","o"," ","c">>,
      <<"h","e","l","l","o">>,
      <<"a","s","d","k","j","q","w","e">> }

WordLists == UNION {[1..n -> Vocabulary] : n \in 0..MaxWords}

Texts == {join(ws) : ws \in WordLists} \cup SampleTexts

InitExtract ==
    /\ StoreUnused
    /\ ProcessorUnused
    /\ OthersUnused
    /\ text \in Texts
    /\ entities = EmptyDict
    /\ pc = "call"

ExtractEntities ==
    /\ pc = "call"
    /\ entities' = extract_entities(text)
    /\ pc' = "returned"
    /\ UNCHANGED <<storeVars, procVars, otherVars, text>>

NextExtract == ExtractEntities

SpecExtract == InitExtract /\ [][NextExtract]_vars

(***************************************************************************)
(* LocalNLPProcessor: predict_intent, fuzzy_match_intent, get_response and *)
(* process_message (src/local_nlp.py 39-274).                              *)
(*                                                                         *)
(* The fitted scikit-learn pipeline and fuzz.partial_ratio are library     *)
(* code: what predict_proba returns (or that it raises) and the score of   *)
(* each (text, pattern) pair are inputs of the call.                       *)
(***************************************************************************)
confidence_threshold == 30

\* default of fuzzy_match_intent's threshold parameter
FUZZY_THRESHOLD == 70

\* create_basic_intents
BasicIntents ==
    << [tag |-> "greeting", patterns |-> <<"hi", "hello", "hey">>,
        responses |-> <<"Hello! How can I help you with your flight needs?">>],
       [tag |-> "flight_status",
        patterns |-> <<"flight status", "check flight", "flight info">>,
        responses |-> <<"I can check flight status. What's the flight number?">>] >>

\* an intents.json with five intents, one of them without responses and one
\* repeating the tag of an earlier one
LoadedIntents ==
    << [tag |-> "greeting", patterns |-> <<"hello">>,
        responses |-> <<"Hello!", "Hi there!">>],
       [tag |-> "flight_status", patterns |-> <<"flight status">>,
        responses |-> <<"Which flight?">>],
       [tag |-> "booking", patterns |-> <<"book a flight">>,
        responses |-> <<>>],
       [tag |-> "goodbye", patterns |-> <<"bye">>,
        responses |-> <<"Goodbye!">>],
       [tag |-> "greeting", patterns |-> <<"good morning">>,
        responses |-> <<"Good morning!">>] >>

IntentConfigs == {BasicIntents, LoadedIntents}

\* the tags in lexicographic order
TagOrder == <<"booking", "flight_status", "goodbye", "greeting">>

\* pipeline.classes_: the distinct training labels, sorted
classes_(intents) ==
    SelectSeq(TagOrder, LAMBDA t : \E i \in 1..Len(intents) : intents[i].tag = t)

RECURSIVE SeqSum(_)
SeqSum(q) == IF q = <<>> THEN 0 ELSE Head(q) + SeqSum(Tail(q))

\* the class probabilities predict_proba can return, in hundredths
ProbLevels == {0, 10, 20, 21, 25, 29, 30, 31, 40, 50, 70, 100}

ProbVectors(n) == {p \in [1..n -> ProbLevels] : SeqSum(p) = 100}

\* what pipeline.predict_proba([processed_text])[0] does: a vector, or it raises
PipelineOutcomes(intents) ==
    {[raised |-> FALSE, probabilities |-> p] : p \in ProbVectors(Len(classes_(intents)))}
    \cup {[raised |-> TRUE, probabilities |-> <<>>]}

\* an argmax returning the last index holding the maximum
argmaxLast(p) == CHOOSE i \in 1..Len(p) :
                    /\ \A j \in 1..Len(p) : p[j] <= p[i]
                    /\ \A j \in (i + 1)..Len(p) : p[j] < p[i]

\* np.argmax: the first index holding the maximum
argmax(p) == CHOOSE i \in 1..Len(p) :
                /\ \A j \in 1..Len(p) : p[j] <= p[i]
                /\ \A j \in 1..(i - 1) : p[j] < p[i]

\* what preprocess_text(text) does (lines 85-100): it returns the normalized
\* text, which the pipeline alone reads, or nltk.word_tokenize / lemmatize
\* raises LookupError because a resource the import failed to download is
\* missing
PreprocessOutcomes == {[raised |-> FALSE], [raised |-> TRUE]}

\* the try block of predict_intent without the confidence threshold test
predict_tryNoThreshold(intents, outcome) ==
    IF outcome.raised
    THEN [intent |-> None, confidence |-> 0]
    ELSE [intent |-> classes_(intents)[argmax(outcome.probabilities)],
          confidence |-> outcome.probabilities[argmax(outcome.probabilities)]]

\* lines 155-173: the try block of predict_intent and its handler
predict_try(intents, outcome) ==
    IF outcome.raised
    THEN [intent |-> None, confidence |-> 0]
    ELSE LET probabilities == outcome.probabilities
             best_idx == argmax(probabilities)
             confidence == probabilities[best_idx]
             predicted_intent == classes_(intents)[best_idx]
         IN  IF confidence < confidence_threshold
             THEN [intent |-> None, confidence |-> confidence]
             ELSE [intent |-> predicted_intent, confidence |-> confidence]

\* lines 148-173.  self.pipeline is set by __init__ (trained or loaded), so the
\* 'if not self.pipeline' exit is not taken; preprocess_text is called at line
\* 153, before the try statement opens, so what it raises leaves the function
predict_intent(intents, pre, outcome) ==
    IF pre.raised
    THEN [raised |-> TRUE, exception |-> "LookupError"]
    ELSE LET r == predict_try(intents, outcome)
         IN  [raised |-> FALSE, intent |-> r.intent, confidence |-> r.confidence]

\* the (intent, pattern) pairs in the order the two loops visit them
RECURSIVE PatternPairs(_)
PatternPairs(intents) ==
    IF intents = <<>> THEN <<>>
    ELSE [i \in 1..Len(Head(intents).patterns) |->
             [tag |-> Head(intents).tag, pattern |-> Head(intents).patterns[i]]]
         \o PatternPairs(Tail(intents))

\* the characters of each pattern of the two configurations
PatternChars ==
    ("hi" :> <<"h","i">>) @@
    ("hello" :> <<"h","e","l","l","o">>) @@
    ("hey" :> <<"h","e","y">>) @@
    ("flight status" :> <<"f","l","i","g","h","t"," ","s","t","a","t","u","s">>) @@
    ("check flight" :> <<"c","h","e","c","k"," ","f","l","i","g","h","t">>) @@
    ("flight info" :> <<"f","l","i","g","h","t"," ","i","n","f","o">>) @@
    ("book a flight" :> <<"b","o","o","k"," ","a"," ","f","l","i","g","h","t">>) @@
    ("bye" :> <<"b","y","e">>) @@
    ("good morning" :> <<"g","o","o","d"," ","m","o","r","n","i","n","g">>)

\* stopwords.words('english'): its members of more than two letters that the
\* texts of the model can contain (shorter tokens are dropped by length)
stop_words ==
    {<<"t","h","e">>,
     <<"a","n","d">>,
     <<"f","o","r">>,
     <<"f","r","o","m">>,
     <<"y","o","u">>,
     <<"c","a","n">>,
     <<"w","h","a","t">>,
     <<"h","o","w">>,
     <<"w","i","t","h">>,
     <<"a","b","o","u","t">>}

\* WordNetLemmatizer.lemmatize(word), noun by default: a plural of the domain
\* loses its ending, every other word of the model's texts is its own lemma
lemmatize(word) ==
    IF word = <<"f","l","i","g","h","t","s">> THEN <<"f","l","i","g","h","t">>
    ELSE IF word = <<"b","o","o","k","i","n","g","s">> THEN <<"b","o","o","k","i","n","g">>
    ELSE word

\* lines 85-100: lowercase, keep letters and whitespace, tokenize, drop stop
\* words and tokens of one or two letters, lemmatize, join with spaces
preprocess_text(txt) ==
    LET low     == lower(txt)
        letters == SelectSeq(low, LAMBDA c : c \in LowerSet \cup UpperSet \cup {" "})
        tokens  == words(letters)
        kept    == SelectSeq(tokens, LAMBDA w : w \notin stop_words /\ Len(w) > 2)
    IN  join([i \in 1..Len(kept) |-> lemmatize(kept[i])])

\* lines 102-114: the (normalized pattern, tag) pairs the pipeline is fitted on
prepare_training_data(intents) ==
    LET pairs == PatternPairs(intents)
    IN  [k \in 1..Len(pairs) |->
            [pattern |-> preprocess_text(PatternChars[pairs[k].pattern]),
             label |-> pairs[k].tag]]

\* the unigrams of the fitted TfidfVectorizer (a bigram of a text is a feature
\* only if its two words are)
vocabulary_(intents) ==
    UNION {ToSet(words(prepare_training_data(intents)[k].pattern)) :
              k \in 1..Len(prepare_training_data(intents))}

\* MultinomialNB's class priors, in hundredths: the share of each class among
\* the training examples, in the order of classes_
class_prior(intents) ==
    LET data == prepare_training_data(intents)
    IN  [i \in 1..Len(classes_(intents)) |->
            (100 * Cardinality({k \in 1..Len(data) :
                                   data[k].label = classes_(intents)[i]}))
               \div Len(data)]

\* a predict_proba that knows nothing about empty feature vectors
PipelineOutcomesAny(intents, processed_text) == PipelineOutcomes(intents)

\* predict_proba([processed_text])[0]: a text without any feature of the
\* vocabulary (the empty text among them) has the zero vector, for which naive
\* Bayes returns the class priors; for any other text the vector is the
\* library's
PipelineOutcomesFor(intents, processed_text) ==
    IF ToSet(words(processed_text)) \cap vocabulary_(intents) = {}
    THEN {[raised |-> FALSE, probabilities |-> class_prior(intents)]}
    ELSE PipelineOutcomes(intents)

\* the scores fuzz.partial_ratio can give the pairs
ScoreLevels == {0, 69, 70, 71, 100}

ScoreTables(intents) == [1..Len(PatternPairs(intents)) -> ScoreLevels]

\* the loops of fuzzy_match_intent letting a later pair with an equal score win
RECURSIVE FuzzyLoopLastWins(_, _, _, _, _, _)
FuzzyLoopLastWins(pairs, scores, threshold, k, best_match, best_score) ==
    IF k > Len(pairs)
    THEN [best_match |-> best_match, best_score |-> best_score]
    ELSE IF scores[k] >= best_score /\ scores[k] > 0 /\ scores[k] >= threshold
         THEN FuzzyLoopLastWins(pairs, scores, threshold, k + 1, pairs[k].tag, scores[k])
         ELSE FuzzyLoopLastWins(pairs, scores, threshold, k + 1, best_match, best_score)

\* the two loops of fuzzy_match_intent from pair k on
RECURSIVE FuzzyLoop(_, _, _, _, _, _)
FuzzyLoop(pairs, scores, threshold, k, best_match, best_score) ==
    IF k > Len(pairs)
    THEN [best_match |-> best_match, best_score |-> best_score]
    ELSE IF scores[k] > best_score /\ scores[k] >= threshold
         THEN FuzzyLoop(pairs, scores, threshold, k + 1, pairs[k].tag, scores[k])
         ELSE FuzzyLoop(pairs, scores, threshold, k + 1, best_match, best_score)

\* fuzzy_match_intent returning best_score itself, not best_score / 100.0
fuzzy_match_intentUndivided(intents, scores, threshold) ==
    LET final == FuzzyLoop(PatternPairs(intents), scores, threshold, 1, None, 0)
    IN  [intent |-> final.best_match, confidence |-> final.best_score * 100]

\* best_score / 100.0 is, in hundredths, best_score
fuzzy_match_intent(intents, scores, threshold) ==
    LET final == FuzzyLoop(PatternPairs(intents), scores, threshold, 1, None, 0)
    IN  [intent |-> final.best_match, confidence |-> final.best_score]

NOT_SURE_HOW == "I'm not sure how to help with that. Could you please rephrase your question?"

NOT_SURE_WHAT == "I'm not sure what you're looking for. I can help you with flight status, bookings, and flight searches. What do you need?"

\* Python truth value of an intent: None and the empty string are false
Truthy(x) == x # None /\ x # ""

\* what get_response(intent_tag) can do: random.choice returns any element of
\* the first matching intent's responses and raises IndexError on an empty list
get_response(intents, intent_tag) ==
    LET hits == {i \in 1..Len(intents) : intents[i].tag = intent_tag}
    IN  IF hits = {}
        THEN {[raised |-> FALSE, value |-> NOT_SURE_HOW]}
        ELSE LET responses == intents[CHOOSE i \in hits : \A j \in hits : i <= j].responses
             IN  IF responses = <<>>
                 THEN {[raised |-> TRUE, value |-> "IndexError"]}
                 ELSE {[raised |-> FALSE, value |-> responses[i]] :
                          i \in 1..Len(responses)}

\* the fallback test with <= in place of <
NeedsFuzzyAtThreshold(predicted) ==
    ~Truthy(predicted.intent) \/ predicted.confidence <= 30

\* lines 256-257: does process_message call fuzzy_match_intent
NeedsFuzzy(predicted) ==
    ~Truthy(predicted.intent) \/ predicted.confidence < confidence_threshold

\* lines 254-261: the (intent, confidence) process_message settles on
ResolveIntent(predicted, fuzzy) ==
    IF NeedsFuzzy(predicted)
       /\ Truthy(fuzzy.intent) /\ fuzzy.confidence > predicted.confidence
    THEN fuzzy
    ELSE predicted

\* process_message asking get_response also when no intent was resolved
SelectResponseAlways(intents, intent) == get_response(intents, intent)

\* lines 263-267
SelectResponse(intents, intent) ==
    IF Truthy(intent)
    THEN get_response(intents, intent)
    ELSE {[raised |-> FALSE, value |-> NOT_SURE_WHAT]}

\* lines 248-274: the dict process_message returns, or the exception it raises
process_message(ents, resolved, response) ==
    IF response.raised
    THEN [status |-> "raised", exception |-> response.value]
    ELSE [status |-> "returned",
          response |-> response.value,
          intent |-> resolved.intent,
          confidence |-> resolved.confidence,
          entities |-> ents]

\* the messages sent to the processor
ProcessMessages ==
    { <<"h","e","l","l","o">>,
      <<"a","s","d","k","j","q","w","e">>,
      <<"F","l","i","g","h","t"," ","A","A","1","2","3"," ","s","t","a","t","u","s">> }

\* line 251 for each of these messages (extract_entities reads the message only)
MessageEntities == [m \in ProcessMessages |-> extract_entities(m)]

\* line 153 for each of these messages, when preprocess_text returns
MessageProcessed == [m \in ProcessMessages |-> preprocess_text(m)]

InitProcess ==
    /\ StoreUnused
    /\ ExtractorUnused
    /\ OthersUnused
    /\ intents_data \in IntentConfigs
    /\ request = [session_id |-> None, message |-> <<>>]
    /\ result = [status |-> "none"]
    /\ steps = NoSteps
    /\ pc = "idle"

\* a chat message of session sid (None: no session) reaches the processor,
\* whose only entry point, process_message(message), takes the message alone
Receive(sid, message) ==
    /\ pc \in {"idle", "responded"}
    /\ request' = [session_id |-> sid, message |-> message]
    /\ result' = [status |-> "none"]
    /\ steps' = NoSteps
    /\ pc' = "received"
    /\ UNCHANGED <<storeVars, extractVars, otherVars, intents_data>>

ProcessMessage ==
    /\ pc = "received"
    /\ \/ \E outcome \in PipelineOutcomesFor(intents_data,
                                                 MessageProcessed[request.message]) :
            LET ents == MessageEntities[request.message]
                p == predict_intent(intents_data, [raised |-> FALSE], outcome)
                predicted == [intent |-> p.intent, confidence |-> p.confidence]
            IN  \E scores \in (IF NeedsFuzzy(predicted)
                               THEN ScoreTables(intents_data) ELSE {<<>>}) :
                  LET fuzzy == IF NeedsFuzzy(predicted)
                               THEN fuzzy_match_intent(intents_data, scores, FUZZY_THRESHOLD)
                               ELSE NoSteps.fuzzy
                      resolved == ResolveIntent(predicted, fuzzy)
                  IN  \E response \in SelectResponse(intents_data, resolved.intent) :
                        /\ result' = process_message(ents, resolved, response)
                        /\ steps' = [normalized |-> TRUE,
                                     predicted |-> predicted,
                                     fuzzy_called |-> NeedsFuzzy(predicted),
                                     fuzzy |-> fuzzy]
       \* line 253: what predict_intent raises leaves process_message too
       \/ LET p == predict_intent(intents_data, [raised |-> TRUE],
                                  [raised |-> FALSE, probabilities |-> <<>>])
          IN  /\ p.raised
              /\ result' = [status |-> "raised", exception |-> p.exception]
              /\ steps' = NoSteps
    /\ pc' = "responded"
    /\ UNCHANGED <<storeVars, extractVars, otherVars, intents_data, request>>

NextProcess ==
    \/ \E sid \in SessionIds \cup {None}, m \in ProcessMessages : Receive(sid, m)
    \/ ProcessMessage

SpecProcess == InitProcess /\ [][NextProcess]_vars

(***************************************************************************)
(* Direct calls of the methods of a constructed LocalNLPProcessor:         *)
(* predict_intent(text), fuzzy_match_intent(text, threshold) and           *)
(* get_response(intent_tag).  The text enters through what the libraries   *)
(* compute from it: the outcome of preprocess_text, the probability vector *)
(* and the partial_ratio score of each (text, pattern) pair.               *)
(***************************************************************************)
\* the threshold arguments passed to fuzzy_match_intent (70 is the default)
FuzzyThresholds == {0, FUZZY_THRESHOLD, 100}

\* the arguments passed to get_response
CallTags == {"greeting", "flight_status", "booking", "goodbye", "no_such_tag", None}

\* the texts passed to predict_intent: the patterns the pipeline was fitted
\* on and the messages sent to the processor
PredictTexts(intents) ==
    {PatternChars[PatternPairs(intents)[k].pattern] :
        k \in 1..Len(PatternPairs(intents))} \cup ProcessMessages

InitCalls ==
    /\ StoreUnused
    /\ ExtractorUnused
    /\ OthersUnused
    /\ intents_data \in IntentConfigs
    /\ request = [session_id |-> None, message |-> <<>>]
    /\ result = [status |-> "none"]
    /\ steps = NoSteps
    /\ pc = "ready"

CallPredictIntent ==
    /\ pc = "ready"
    /\ \E txt \in PredictTexts(intents_data), pre \in PreprocessOutcomes :
          \E outcome \in PipelineOutcomesFor(intents_data, preprocess_text(txt)) :
             call' = [fn |-> "predict_intent", text |-> txt, pre |-> pre,
                      outcome |-> outcome,
                      returned |-> predict_intent(intents_data, pre, outcome)]
    /\ pc' = "returned"
    /\ UNCHANGED <<storeVars, procVars, extractVars, bootVars, threadVars, appVars>>

CallFuzzyMatch ==
    /\ pc = "ready"
    /\ \E threshold \in FuzzyThresholds, scores \in ScoreTables(intents_data) :
          call' = [fn |-> "fuzzy_match_intent", threshold |-> threshold,
                   scores |-> scores,
                   returned |-> fuzzy_match_intent(intents_data, scores, threshold)]
    /\ pc' = "returned"
    /\ UNCHANGED <<storeVars, procVars, extractVars, bootVars, threadVars, appVars>>

CallGetResponse ==
    /\ pc = "ready"
    /\ \E intent_tag \in CallTags :
          \E r \in get_response(intents_data, intent_tag) :
             call' = [fn |-> "get_response", intent_tag |-> intent_tag, returned |-> r]
    /\ pc' = "returned"
    /\ UNCHANGED <<storeVars, procVars, extractVars, bootVars, threadVars, appVars>>

NextCalls ==
    \/ CallPredictIntent
    \/ CallFuzzyMatch
    \/ CallGetResponse

SpecCalls == InitCalls /\ [][NextCalls]_vars

(***************************************************************************)
(* Construction of LocalNLPProcessor (lines 40-54) in a working directory  *)
(* holding intents.json and nlp_model.pkl or not.  The pickled pipeline is *)
(* identified by the intent configuration it was fitted on.  Between two   *)
(* runs of the program the files can be edited or deleted.                 *)
(***************************************************************************)
\* lines 65-83
create_basic_intents ==
    [intents_data |-> BasicIntents,
     intents_file |-> FileOf(BasicIntents),
     events |-> <<"create_basic_intents", "write_intents">>]

\* load_intents rewriting the file it has read
load_intentsRewrite(file) ==
    IF file.exists
    THEN [intents_data |-> file.content, intents_file |-> FileOf(file.content),
          events |-> <<"load_intents", "write_intents">>]
    ELSE [intents_data |-> BasicIntents, intents_file |-> FileOf(BasicIntents),
          events |-> <<"load_intents", "create_basic_intents", "write_intents">>]

\* lines 56-63: what load_intents leaves, given the file it finds
load_intents(file) ==
    IF file.exists
    THEN [intents_data |-> file.content, intents_file |-> file,
          events |-> <<"load_intents">>]
    ELSE [intents_data |-> create_basic_intents.intents_data,
          intents_file |-> create_basic_intents.intents_file,
          events |-> <<"load_intents">> \o create_basic_intents.events]

\* a save_model that writes nothing
save_modelNothing(file, fitted) == file

\* lines 137-140: nlp_model.pkl after save_model
save_model(file, fitted) == FileOf(fitted.trained_on)

\* lines 142-146: the pipeline unpickled from nlp_model.pkl
load_model(file) == [present |-> TRUE, trained_on |-> file.content]

InitStartup ==
    /\ StoreUnused
    /\ ExtractorUnused
    /\ ProcessorUnused
    /\ CallUnused
    /\ ThreadsUnused
    /\ AppUnused
    /\ intents_file \in {NoFile} \cup {FileOf(c) : c \in IntentConfigs}
    /\ model_file \in {NoFile} \cup {FileOf(c) : c \in IntentConfigs}
    /\ pipeline = NoPipeline
    /\ events = <<>>
    /\ boot = [intents_file |-> NoFile, model_file |-> NoFile]
    /\ nstarts = 0
    /\ pc = "off"

\* lines 40-45: a new process constructs the processor
Start ==
    /\ pc = "off"
    /\ nstarts < MaxStarts
    /\ nstarts' = nstarts + 1
    /\ pipeline' = NoPipeline
    /\ intents_data' = <<>>
    /\ events' = <<>>
    /\ boot' = [intents_file |-> intents_file, model_file |-> model_file]
    /\ pc' = "load_intents"
    /\ UNCHANGED <<storeVars, extractVars, callVars, threadVars, appVars, request, result, steps,
                   intents_file, model_file>>

\* line 48
LoadIntents ==
    /\ pc = "load_intents"
    /\ LET loaded == load_intents(intents_file)
       IN  /\ intents_data' = loaded.intents_data
           /\ intents_file' = loaded.intents_file
           /\ events' = events \o loaded.events
    /\ pc' = "model"
    /\ UNCHANGED <<storeVars, extractVars, callVars, threadVars, appVars, request, result, steps,
                   model_file, pipeline, boot, nstarts>>

\* lines 51-52
LoadModel ==
    /\ pc = "model"
    /\ model_file.exists
    /\ pipeline' = load_model(model_file)
    /\ events' = Append(events, "load_model")
    /\ pc' = "ready"
    /\ UNCHANGED <<storeVars, extractVars, callVars, threadVars, appVars, procVars,
                   intents_file, model_file, boot, nstarts>>

\* lines 53-54 and 116-135: prepare_training_data preprocesses every pattern,
\* which can raise as in predict_intent; otherwise the pipeline is fitted on
\* the loaded intents and pickled
TrainModel ==
    /\ pc = "model"
    /\ ~model_file.exists
    /\ \E pre \in PreprocessOutcomes :
          IF pre.raised
          THEN /\ events' = Append(events, "train_model")
               /\ pc' = "failed"
               /\ UNCHANGED <<pipeline, model_file>>
          ELSE LET fitted == [present |-> TRUE, trained_on |-> intents_data]
               IN  /\ pipeline' = fitted
                   /\ model_file' = save_model(model_file, fitted)
                   /\ events' = events \o <<"train_model", "write_model">>
                   /\ pc' = "ready"
    /\ UNCHANGED <<storeVars, extractVars, callVars, threadVars, appVars, procVars,
                   intents_file, boot, nstarts>>

\* the process ends
Stop ==
    /\ pc \in {"ready", "failed"}
    /\ pc' = "off"
    /\ UNCHANGED <<storeVars, extractVars, callVars, threadVars, appVars, procVars, bootVars>>

\* between two runs somebody replaces or deletes intents.json, or deletes
\* nlp_model.pkl
EditFiles ==
    /\ pc = "off"
    /\ nstarts < MaxStarts
    /\ \/ /\ intents_file' \in ({NoFile} \cup {FileOf(c) : c \in IntentConfigs})
                                 \ {intents_file}
          /\ UNCHANGED model_file
       \/ /\ model_file.exists
          /\ model_file' = NoFile
          /\ UNCHANGED intents_file
    /\ UNCHANGED <<storeVars, extractVars, callVars, threadVars, appVars, procVars,
                   pipeline, events, boot, nstarts, pc>>

NextStartup ==
    \/ Start
    \/ LoadIntents
    \/ LoadModel
    \/ TrainModel
    \/ Stop
    \/ EditFiles

SpecStartup == InitStartup /\ [][NextStartup]_vars

(***************************************************************************)
(* Two threads calling one ConversationContext for the same session, one   *)
(* call each.  The class takes no lock, so the calls interleave at the     *)
(* granularity of the interpreter: a dict lookup, a dict store, a list     *)
(* append, a slice are each one step.  Context dicts are objects of a      *)
(* heap, so that two of them can exist for one session id.                 *)
(***************************************************************************)
SharedSession == "s1"

\* what each thread passes to update_context
ThreadTurn ==
    [t1 |-> [intent |-> "greeting", entities |-> EmptyDict, user_message |-> "hello"],
     t2 |-> [intent |-> None, entities |-> [flight_numbers |-> <<"AA123">>],
             user_message |-> "AA123 ?"]]

\* the turns a session can hold before the two calls
OldMessages == <<"m01", "m02", "m03", "m04", "m05", "m06", "m07", "m08", "m09", "m10">>

OldContext(n) ==
    [previous_intent |-> "greeting",
     entities_history |-> [i \in 1..n |-> EmptyDict],
     conversation_flow |-> [i \in 1..n |-> [user_message |-> OldMessages[i],
                                            intent |-> "greeting",
                                            entities |-> EmptyDict]],
     user_data |-> EmptyDict]

\* the dict user_contexts denotes: each session id with the object it refers to
Stored == [s \in DOMAIN refs |-> heap[refs[s]]]

notThreadVars == <<storeVars, procVars, extractVars, callVars, bootVars, appVars, pc>>

InitThreads ==
    /\ StoreUnused
    /\ ProcessorUnused
    /\ ExtractorUnused
    /\ CallUnused
    /\ BootUnused
    /\ AppUnused
    /\ \/ heap = <<>> /\ refs = EmptyDict
       \/ \E n \in {1, MAX_HISTORY - 1, MAX_HISTORY} :
             /\ heap = <<OldContext(n)>>
             /\ refs = (SharedSession :> 1)
    /\ threads = [t \in Threads |-> IdleThread]
    /\ store0 = Stored
    /\ pc = "threads"

\* thread t enters get_context or update_context for the shared session
Enter(t, op) ==
    /\ threads[t].pc = "idle"
    /\ threads' = [threads EXCEPT ![t] = [@ EXCEPT !.pc = "check", !.op = op]]
    /\ UNCHANGED <<heap, refs, store0, notThreadVars>>

\* line 284: if session_id not in self.user_contexts
CheckMissing(t) ==
    /\ threads[t].pc = "check"
    /\ threads' = [threads EXCEPT ![t].pc =
                      IF SharedSession \in DOMAIN refs THEN "fetch" ELSE "create"]
    /\ UNCHANGED <<heap, refs, store0, notThreadVars>>

\* lines 285-290: a new dict is built and stored under the session id
CreateContext(t) ==
    /\ threads[t].pc = "create"
    /\ heap' = Append(heap, NewContext)
    /\ refs' = (SharedSession :> Len(heap) + 1) @@ refs
    /\ threads' = [threads EXCEPT ![t].pc = "fetch"]
    /\ UNCHANGED <<store0, notThreadVars>>

\* line 291: return self.user_contexts[session_id]; get_context ends here,
\* update_context (line 295) goes on with the object it got
FetchContext(t) ==
    /\ threads[t].pc = "fetch"
    /\ threads' = [threads EXCEPT ![t] =
                      [@ EXCEPT !.context = refs[SharedSession],
                                !.pc = IF threads[t].op = "get_context"
                                       THEN "done" ELSE "set_intent"]]
    /\ UNCHANGED <<heap, refs, store0, notThreadVars>>

\* line 296
SetPreviousIntent(t) ==
    /\ threads[t].pc = "set_intent"
    /\ heap' = [heap EXCEPT ![threads[t].context].previous_intent = ThreadTurn[t].intent]
    /\ threads' = [threads EXCEPT ![t].pc = "append_history"]
    /\ UNCHANGED <<refs, store0, notThreadVars>>

\* line 297
AppendHistory(t) ==
    /\ threads[t].pc = "append_history"
    /\ heap' = [heap EXCEPT ![threads[t].context].entities_history =
                    Append(@, ThreadTurn[t].entities)]
    /\ threads' = [threads EXCEPT ![t].pc = "append_flow"]
    /\ UNCHANGED <<refs, store0, notThreadVars>>

\* lines 298-302
AppendFlow(t) ==
    /\ threads[t].pc = "append_flow"
    /\ heap' = [heap EXCEPT ![threads[t].context].conversation_flow =
                    Append(@, [user_message |-> ThreadTurn[t].user_message,
                               intent |-> ThreadTurn[t].intent,
                               entities |-> ThreadTurn[t].entities])]
    /\ threads' = [threads EXCEPT ![t].pc = "check_len"]
    /\ UNCHANGED <<refs, store0, notThreadVars>>

\* line 305: if len(context['conversation_flow']) > 10
CheckLength(t) ==
    /\ threads[t].pc = "check_len"
    /\ threads' = [threads EXCEPT ![t].pc =
                      IF Len(heap[threads[t].context].conversation_flow) > MAX_HISTORY
                      THEN "slice_flow" ELSE "done"]
    /\ UNCHANGED <<heap, refs, store0, notThreadVars>>

\* line 306, right-hand side: context['conversation_flow'][-10:]
SliceFlow(t) ==
    /\ threads[t].pc = "slice_flow"
    /\ threads' = [threads EXCEPT ![t] =
                      [@ EXCEPT !.tmp = LastN(heap[threads[t].context].conversation_flow,
                                                MAX_HISTORY),
                                !.pc = "store_flow"]]
    /\ UNCHANGED <<heap, refs, store0, notThreadVars>>

\* line 306, the assignment
StoreFlow(t) ==
    /\ threads[t].pc = "store_flow"
    /\ heap' = [heap EXCEPT ![threads[t].context].conversation_flow = threads[t].tmp]
    /\ threads' = [threads EXCEPT ![t] = [@ EXCEPT !.tmp = <<>>, !.pc = "slice_history"]]
    /\ UNCHANGED <<refs, store0, notThreadVars>>

\* line 307, right-hand side: context['entities_history'][-10:]
SliceHistory(t) ==
    /\ threads[t].pc = "slice_history"
    /\ threads' = [threads EXCEPT ![t] =
                      [@ EXCEPT !.tmp = LastN(heap[threads[t].context].entities_history,
                                                MAX_HISTORY),
                                !.pc = "store_history"]]
    /\ UNCHANGED <<heap, refs, store0, notThreadVars>>

\* line 307, the assignment
StoreHistory(t) ==
    /\ threads[t].pc = "store_history"
    /\ heap' = [heap EXCEPT ![threads[t].context].entities_history = threads[t].tmp]
    /\ threads' = [threads EXCEPT ![t] = [@ EXCEPT !.tmp = <<>>, !.pc = "done"]]
    /\ UNCHANGED <<refs, store0, notThreadVars>>

NextThreads ==
    \E t \in Threads :
        \/ \E op \in {"get_context", "update_context"} : Enter(t, op)
        \/ CheckMissing(t)
        \/ CreateContext(t)
        \/ FetchContext(t)
        \/ SetPreviousIntent(t)
        \/ AppendHistory(t)
        \/ AppendFlow(t)
        \/ CheckLength(t)
        \/ SliceFlow(t)
        \/ StoreFlow(t)
        \/ SliceHistory(t)
        \/ StoreHistory(t)

SpecThreads == InitThreads /\ [][NextThreads]_vars

(***************************************************************************)
(* AirlineDataAPI.get_airport_code (src/airline_api.py 256-281), with the  *)
(* city_to_iata dictionary of __init__ (13-117) and the airports of the    *)
(* backup data (131-137).                                                  *)
(***************************************************************************)
\* self.city_to_iata; a key written twice in the source keeps its last value
city_to_iata ==
    ("new york" :> "JFK") @@ ("los angeles" :> "LAX") @@ ("chicago" :> "ORD") @@
    ("atlanta" :> "ATL") @@ ("dallas" :> "DFW") @@ ("london" :> "LHR") @@
    ("paris" :> "CDG") @@ ("tokyo" :> "HND") @@ ("beijing" :> "PEK") @@
    ("dubai" :> "DXB") @@ ("singapore" :> "SIN") @@ ("frankfurt" :> "FRA") @@
    ("amsterdam" :> "AMS") @@ ("hong kong" :> "HKG") @@ ("sydney" :> "SYD") @@
    ("manchester" :> "MAN") @@ ("edinburgh" :> "EDI") @@ ("birmingham" :> "BHX") @@
    ("glasgow" :> "GLA") @@ ("nice" :> "NCE") @@ ("lyon" :> "LYS") @@
    ("marseille" :> "MRS") @@ ("munich" :> "MUC") @@ ("berlin" :> "BER") @@
    ("hamburg" :> "HAM") @@ ("dusseldorf" :> "DUS") @@ ("madrid" :> "MAD") @@
    ("barcelona" :> "BCN") @@ ("rome" :> "FCO") @@ ("milan" :> "MXP") @@
    ("venice" :> "VCE") @@ ("zurich" :> "ZRH") @@ ("geneva" :> "GVA") @@
    ("moscow" :> "SVO") @@ ("st petersburg" :> "LED") @@ ("shanghai" :> "PVG") @@
    ("guangzhou" :> "CAN") @@ ("shenzhen" :> "SZX") @@ ("chengdu" :> "CTU") @@
    ("osaka" :> "KIX") @@ ("nagoya" :> "NGO") @@ ("seoul" :> "ICN") @@
    ("abu dhabi" :> "AUH") @@ ("doha" :> "DOH") @@ ("istanbul" :> "IST") @@
    ("delhi" :> "DEL") @@ ("mumbai" :> "BOM") @@ ("bangalore" :> "BLR") @@
    ("chennai" :> "MAA") @@ ("hyderabad" :> "HYD") @@ ("kolkata" :> "CCU") @@
    ("melbourne" :> "MEL") @@ ("brisbane" :> "BNE") @@ ("perth" :> "PER") @@
    ("sao paulo" :> "GRU") @@ ("rio de janeiro" :> "GIG") @@ ("toronto" :> "YYZ") @@
    ("vancouver" :> "YVR") @@ ("montreal" :> "YUL")

\* self.backup_data['airports']: city and iata_code, in list order
backup_airports ==
    << [iata_code |-> "JFK", city |-> <<"N","e","w"," ","Y","o","r","k">>],
       [iata_code |-> "LAX", city |-> <<"L","o","s"," ","A","n","g","e","l","e","s">>],
       [iata_code |-> "ORD", city |-> <<"C","h","i","c","a","g","o">>],
       [iata_code |-> "ATL", city |-> <<"A","t","l","a","n","t","a">>],
       [iata_code |-> "DFW", city |-> <<"D","a","l","l","a","s">>] >>

\* str.isupper(): at least one cased character and no lowercase one
isupper(s) ==
    /\ \E i \in 1..Len(s) : s[i] \in UpperSet
    /\ \A i \in 1..Len(s) : s[i] \notin LowerSet

\* the airports whose city contains the lowercased input, by list position
BackupHits(city_or_code) ==
    {i \in 1..Len(backup_airports) :
        Find(lower(backup_airports[i].city), lower(city_or_code), 1) # 0}

\* get_airport_code without the 3-letter shortcut of line 268
get_airport_codeNoShortcut(city_or_code) ==
    IF city_or_code = <<>> THEN "N/A"
    ELSE IF Str(lower(city_or_code)) \in DOMAIN city_to_iata
    THEN city_to_iata[Str(lower(city_or_code))]
    ELSE IF BackupHits(city_or_code) # {}
    THEN backup_airports[CHOOSE i \in BackupHits(city_or_code) :
                            \A j \in BackupHits(city_or_code) : i <= j].iata_code
    ELSE Str(upper(city_or_code))

\* lines 256-281
get_airport_code(city_or_code) ==
    IF city_or_code = <<>> THEN "N/A"
    ELSE IF Len(city_or_code) = 3 /\ isupper(city_or_code) THEN Str(city_or_code)
    ELSE IF Str(lower(city_or_code)) \in DOMAIN city_to_iata
    THEN city_to_iata[Str(lower(city_or_code))]
    ELSE IF BackupHits(city_or_code) # {}
    THEN backup_airports[CHOOSE i \in BackupHits(city_or_code) :
                            \A j \in BackupHits(city_or_code) : i <= j].iata_code
    ELSE Str(upper(city_or_code))

\* every spelling of s in upper and lower case letters
RECURSIVE CaseVariants(_)
CaseVariants(s) ==
    IF s = <<>> THEN {<<>>}
    ELSE {<<c>> \o v : c \in {lower(s)[1], upper(s)[1]}, v \in CaseVariants(Tail(s))}

\* the arguments passed to get_airport_code
AirportInputs ==
    UNION {CaseVariants(w) : w \in {<<"d","a","l">>,
                                    <<"j","f","k">>,
                                    <<"y","o","r">>,
                                    <<"y","o","r","k">>,
                                    <<"n","i","c","e">>,
                                    <<"r","o","m","e">>,
                                    <<"a","n">>,
                                    <<"a","1","b">>,
                                    <<"x","y","z">>,
                                    <<"o","s","l","o">>}}
    \cup {<<>>,
          <<" ">>,
          <<"1","2","3">>,
          <<"s">>,
          <<"N","e","w"," ","Y","o","r","k">>,
          <<"n","e","w"," ","y","o","r","k">>,
          <<"N","E","W"," ","Y","O","R","K">>,
          <<"L","o","s"," ","A","n","g","e","l","e","s">>,
          <<"l","o","n","d","o","n">>,
          <<"L","o","n","d","o","n">>,
          <<"H","o","n","g"," ","K","o","n","g">>,
          <<"S","t"," ","P","e","t","e","r","s","b","u","r","g">>,
          <<"b","o","s","t","o","n">>,
          <<"C","h","i","c","a","g","o">>,
          <<"a","t","l","a","n","t","a">>}

InitAirport ==
    /\ StoreUnused
    /\ ProcessorUnused
    /\ ExtractorUnused
    /\ OthersUnused
    /\ pc = "ready"

CallGetAirportCode ==
    /\ pc = "ready"
    /\ \E city_or_code \in AirportInputs :
          call' = [fn |-> "get_airport_code", city_or_code |-> city_or_code,
                   returned |-> get_airport_code(city_or_code)]
    /\ pc' = "returned"
    /\ UNCHANGED <<storeVars, procVars, extractVars, bootVars, threadVars, appVars>>

NextAirport == CallGetAirportCode

SpecAirport == InitAirport /\ [][NextAirport]_vars

(***************************************************************************)
(* MockBookingSystem (src/airline_api.py 325-388).  Booking ids are        *)
(* sequences of characters, so that the f-string of create_booking and the *)
(* upper() of find_booking are computed.                                   *)
(***************************************************************************)
Digits == <<"0","1","2","3","4","5","6","7","8","9">>

\* str(n) for n >= 0
RECURSIVE Decimal(_)
Decimal(n) ==
    IF n < 10 THEN <<Digits[n + 1]>>
    ELSE Decimal(n \div 10) \o <<Digits[(n % 10) + 1]>>

\* the format specification 0<width>d
RECURSIVE ZeroPad(_, _)
ZeroPad(s, width) == IF Len(s) >= width THEN s ELSE ZeroPad(<<"0">> \o s, width)

Booking(booking_id, passenger_name, flight_number, status) ==
    [booking_id |-> booking_id, passenger_name |-> passenger_name,
     flight_number |-> flight_number, status |-> status]

\* lines 328-359: the preloaded demo bookings (id, passenger, flight, status)
PreloadedBookings ==
    LET abc == <<"A","B","C","1","2","3">>
        def == <<"D","E","F","4","5","6">>
        ghi == <<"G","H","I","7","8","9">>
    IN  (abc :> Booking(abc, "John Smith", "AA123", "Confirmed"))
        @@ (def :> Booking(def, "Jane Doe", "UA456", "Confirmed"))
        @@ (ghi :> Booking(ghi, "Bob Johnson", "DL789", "Pending"))

\* Python's None as find_booking returns it
NoBooking == [booking_id |-> <<>>]

\* a find_booking looking the id up as it was given
find_bookingExact(stored, booking_id) ==
    IF booking_id \in DOMAIN stored THEN stored[booking_id] ELSE NoBooking

\* lines 361-363: self.bookings.get(booking_id.upper())
find_booking(stored, booking_id) ==
    IF upper(booking_id) \in DOMAIN stored THEN stored[upper(booking_id)] ELSE NoBooking

\* line 376: f"BK{len(self.bookings) + 1:03d}"
new_id(stored) == <<"B","K">> \o ZeroPad(Decimal(Cardinality(DOMAIN stored) + 1), 3)

\* lines 373-388: the booking create_booking builds and returns
create_booking(stored, passenger_name, flight_number) ==
    Booking(new_id(stored), passenger_name, flight_number, "Confirmed")

\* the arguments passed to create_booking
PassengerNames == {"Ann Lee", "John Smith"}
FlightNumbers == {"AA123", "UA456"}

\* the ids looked up: every spelling of the stored ids, and an unknown one
LookupIds == UNION {CaseVariants(k) : k \in DOMAIN booking_table} \cup {<<"Z","Z","Z","9","9","9">>}

InitBookings ==
    /\ StoreUnused
    /\ ProcessorUnused
    /\ ExtractorUnused
    /\ CallUnused
    /\ BootUnused
    /\ ThreadsUnused
    /\ ServerUnused
    /\ booking_table = PreloadedBookings
    /\ pc = "bookings"

CreateBooking ==
    /\ Cardinality(DOMAIN booking_table) < Cardinality(DOMAIN PreloadedBookings) + MaxBookings
    /\ \E passenger_name \in PassengerNames, flight_number \in FlightNumbers :
          LET booking == create_booking(booking_table, passenger_name, flight_number)
          IN  /\ booking_table' = [k \in DOMAIN booking_table \cup {booking.booking_id} |->
                                 IF k = booking.booking_id THEN booking ELSE booking_table[k]]
              /\ call' = [fn |-> "create_booking", before |-> booking_table,
                          returned |-> booking]
    /\ UNCHANGED <<storeVars, procVars, extractVars, bootVars, threadVars, serverVars, pc>>

FindBooking ==
    /\ \E booking_id \in LookupIds :
          call' = [fn |-> "find_booking", booking_id |-> booking_id,
                   returned |-> find_booking(booking_table, booking_id)]
    /\ UNCHANGED <<storeVars, procVars, extractVars, bootVars, threadVars, serverVars,
                   booking_table, pc>>

NextBookings ==
    \/ CreateBooking
    \/ FindBooking

SpecBookings == InitBookings /\ [][NextBookings]_vars


(***************************************************************************)
(* The chat servers (src/airly2.py and src/airly4.py).  One WebSocket      *)
(* connection is followed from its handshake on.  websocket_endpoint and   *)
(* the stream_response tasks it creates are coroutines of one event loop:  *)
(* each action runs one coroutine from the await where it is suspended to  *)
(* its next await.  task.cancel() makes CancelledError be raised at the    *)
(* await where the task is suspended.                                      *)
(***************************************************************************)
Servers == {"airly2", "airly4"}

SECRET_KEY == "SECRET_KEY"
ALGORITHM == "HS256"
PAUSE == <<"_","_","P","A","U","S","E","_","_">>
END == "[END]"
PAUSED_TEXT == "Response paused."
ERROR_TEXT == "Sorry, something went wrong."

\* a signed token: the key and algorithm of its signature, whether its exp
\* claim is in the past when it is decoded, and its other claims
Jwt(key, alg, expired, claims) ==
    [form |-> "jwt", key |-> key, alg |-> alg, expired |-> expired, claims |-> claims]

create_access_token(sub) == Jwt(SECRET_KEY, ALGORITHM, FALSE, [sub |-> sub])

\* websocket.cookies.get("access_token") of a handshake without the cookie
NoToken == [form |-> "None"]

\* the values a client can put in the access_token cookie
CookieTokens ==
    { [form |-> "empty"],
      [form |-> "garbage"],
      Jwt("another key", ALGORITHM, FALSE, [sub |-> "alice"]),
      Jwt(SECRET_KEY, "none", FALSE, [sub |-> "alice"]),
      Jwt(SECRET_KEY, ALGORITHM, TRUE, [sub |-> "alice"]),
      Jwt(SECRET_KEY, ALGORITHM, FALSE, EmptyDict),
      Jwt(SECRET_KEY, ALGORITHM, FALSE, [sub |-> ""]),
      create_access_token("alice") }

Cookies == {EmptyDict} \cup {[access_token |-> token] : token \in CookieTokens}

cookies_get(cookies) ==
    IF "access_token" \in DOMAIN cookies THEN cookies.access_token ELSE NoToken

\* jose's jwt.decode: JWTError for a malformed token, a signature that does
\* not verify under the key, an algorithm that is not allowed, an expired token
jwt_decode(token, key, algorithms) ==
    IF token.form # "jwt" \/ token.key # key \/ token.alg \notin algorithms \/ token.expired
    THEN [raised |-> TRUE]
    ELSE [raised |-> FALSE, payload |-> token.claims]

decode_username_from_tokenUnverified(token) ==
    IF token.form = "jwt" /\ "sub" \in DOMAIN token.claims THEN token.claims.sub ELSE None

decode_username_from_token(token) ==
    LET decoded == jwt_decode(token, SECRET_KEY, {ALGORITHM})
    IN  IF decoded.raised THEN None
        ELSE IF "sub" \in DOMAIN decoded.payload THEN decoded.payload.sub ELSE None

\* "if token": None and the empty string are false
TokenTruthy(token) == token.form \notin {"None", "empty"}

NewSocket == [pc |-> "connecting", cookies |-> EmptyDict, username |-> None,
              session_id |-> None, accepted |-> FALSE, close_code |-> 0]

\* str(uuid.uuid4()) of the one connection followed
Uuid4 == "uuid4-1"

NewTask == [pc |-> "created", cancel_requested |-> FALSE, chunks |-> 0, streamed |-> FALSE]

TaskFinished == {"done", "cancelled", "error_done", "failed"}

\* Task.cancel(): nothing for a finished task
cancel(task) ==
    IF task.pc \in TaskFinished THEN task ELSE [task EXCEPT !.cancel_requested = TRUE]

Received(data) == [ev |-> "receive", by |-> 0, data |-> data]
Sent(by, data) == [ev |-> "send", by |-> by, data |-> data]

\* what the client types
UserMessages == {<<"h","e","l","l","o">>, PAUSE}

\* websocket.send_text once the client has gone: depending on the ASGI server
\* it raises or the frame is dropped; on an open connection it is written
SendOutcomes == IF websocket.pc = "disconnected" THEN {"raised", "dropped"} ELSE {"written"}

InitServer ==
    /\ StoreUnused
    /\ ProcessorUnused
    /\ ExtractorUnused
    /\ CallUnused
    /\ BootUnused
    /\ ThreadsUnused
    /\ BookingsUnused
    /\ server \in Servers
    /\ websocket = NewSocket
    /\ active_tasks = EmptyDict
    /\ tasks = <<>>
    /\ message_history = <<>>
    /\ trace = <<>>
    /\ pc = "serving"

notServerVars == <<storeVars, procVars, extractVars, callVars, bootVars, threadVars,
                   bookingVars, pc>>

\* the handshake: airly4 reads the cookie and closes with 1008 unless it
\* decodes to a username; airly2 accepts every connection and reads no cookie
Connect ==
    /\ websocket.pc = "connecting"
    /\ \E cookies \in IF server = "airly4" THEN Cookies ELSE {EmptyDict} :
          LET token == cookies_get(cookies)
              username == IF server = "airly4" /\ TokenTruthy(token)
                          THEN decode_username_from_token(token) ELSE None
          IN  IF server = "airly4" /\ ~Truthy(username)
              THEN websocket' = [websocket EXCEPT !.pc = "closed", !.cookies = cookies,
                                                  !.close_code = 1008]
              ELSE websocket' = [websocket EXCEPT !.pc = "receive_text",
                                                  !.cookies = cookies,
                                                  !.username = username,
                                                  !.accepted = TRUE,
                                                  !.session_id = Uuid4]
    /\ UNCHANGED <<server, active_tasks, tasks, message_history, trace, notServerVars>>

\* user_message = await websocket.receive_text(), up to the next await
ReceiveText ==
    /\ websocket.pc = "receive_text"
    /\ Cardinality({i \in 1..Len(trace) : trace[i].ev = "receive"}) < MaxReceived
    /\ \E user_message \in UserMessages :
          /\ user_message # PAUSE => Len(tasks) < MaxTasks
          /\ trace' = Append(trace, Received(Str(user_message)))
          /\ IF user_message = PAUSE
             THEN IF websocket.session_id \in DOMAIN active_tasks
                  THEN /\ tasks' = [tasks EXCEPT ![active_tasks[websocket.session_id]] =
                                                    cancel(@)]
                       /\ websocket' = [websocket EXCEPT !.pc = "send_paused"]
                       /\ UNCHANGED active_tasks
                  ELSE UNCHANGED <<tasks, websocket, active_tasks>>
             ELSE /\ tasks' = Append(tasks, NewTask)
                  /\ active_tasks' = [s \in DOMAIN active_tasks \cup {websocket.session_id} |->
                                         IF s = websocket.session_id THEN Len(tasks) + 1
                                         ELSE active_tasks[s]]
                  /\ UNCHANGED websocket
    /\ UNCHANGED <<server, message_history, notServerVars>>

\* await websocket.receive_text() raises WebSocketDisconnect
Disconnect ==
    /\ websocket.pc = "receive_text"
    /\ websocket' = [websocket EXCEPT !.pc = "disconnected"]
    /\ UNCHANGED <<server, active_tasks, tasks, message_history, trace, notServerVars>>

SendPaused ==
    /\ websocket.pc = "send_paused"
    /\ trace' = Append(trace, Sent(0, PAUSED_TEXT))
    /\ websocket' = [websocket EXCEPT !.pc = "send_paused_end"]
    /\ UNCHANGED <<server, active_tasks, tasks, message_history, notServerVars>>

SendPausedEnd ==
    /\ websocket.pc = "send_paused_end"
    /\ trace' = Append(trace, Sent(0, END))
    /\ websocket' = [websocket EXCEPT !.pc = "receive_text"]
    /\ UNCHANGED <<server, active_tasks, tasks, message_history, notServerVars>>

\* CancelledError raised where the task is suspended: before its first step
\* the coroutine never runs; inside the try it is caught and the task ends;
\* inside the except Exception handler it ends the task
TaskCancelled(k) ==
    /\ tasks[k].pc \notin TaskFinished
    /\ tasks[k].cancel_requested
    /\ tasks' = [tasks EXCEPT ![k].pc = "cancelled"]
    /\ UNCHANGED <<server, websocket, active_tasks, message_history, trace, notServerVars>>

TaskStart(k) ==
    /\ tasks[k].pc = "created"
    /\ ~tasks[k].cancel_requested
    /\ tasks' = [tasks EXCEPT ![k].pc = "run_stream"]
    /\ UNCHANGED <<server, websocket, active_tasks, message_history, trace, notServerVars>>

\* async with agent.run_stream(...) as result: the request succeeds or raises
TaskRunStream(k) ==
    /\ tasks[k].pc = "run_stream"
    /\ ~tasks[k].cancel_requested
    /\ \E outcome \in {"entered", "raised"} :
          tasks' = [tasks EXCEPT ![k].pc = IF outcome = "entered" THEN "stream_text"
                                           ELSE "error_text"]
    /\ UNCHANGED <<server, websocket, active_tasks, message_history, trace, notServerVars>>

\* async for chunk in result.stream_text(): the stream raises, or it ends and
\* message_history.extend(result.new_messages()) runs before the next await
TaskStreamText(k) ==
    /\ tasks[k].pc = "stream_text"
    /\ ~tasks[k].cancel_requested
    /\ \E outcome \in {"exhausted", "raised"} :
          /\ tasks' = [tasks EXCEPT ![k].pc = IF outcome = "exhausted" THEN "send_end"
                                              ELSE "error_text",
                                    ![k].streamed = (outcome = "exhausted")]
          /\ message_history' = IF outcome = "exhausted" THEN Append(message_history, k)
                                ELSE message_history
    /\ UNCHANGED <<server, websocket, active_tasks, trace, notServerVars>>

TaskSendChunkExtending(k) ==
    /\ tasks[k].pc = "stream_text"
    /\ ~tasks[k].cancel_requested
    /\ tasks[k].chunks < MaxChunks
    /\ tasks' = [tasks EXCEPT ![k].chunks = tasks[k].chunks + 1]
    /\ trace' = Append(trace, Sent(k, "chunk"))
    /\ message_history' = Append(message_history, k)
    /\ UNCHANGED <<server, websocket, active_tasks, notServerVars>>

\* the stream gives a chunk and await websocket.send_text(chunk) passes it on;
\* the task is back at the await of the stream
TaskSendChunk(k) ==
    /\ tasks[k].pc = "stream_text"
    /\ ~tasks[k].cancel_requested
    /\ tasks[k].chunks < MaxChunks
    /\ \E outcome \in SendOutcomes :
          /\ tasks' = [tasks EXCEPT ![k].pc = IF outcome = "raised" THEN "error_text"
                                              ELSE "stream_text",
                                    ![k].chunks = tasks[k].chunks + 1]
          /\ trace' = IF outcome = "written" THEN Append(trace, Sent(k, "chunk")) ELSE trace
    /\ UNCHANGED <<server, websocket, active_tasks, message_history, notServerVars>>

\* await websocket.send_text("[END]") after the stream
TaskSendEnd(k) ==
    /\ tasks[k].pc = "send_end"
    /\ ~tasks[k].cancel_requested
    /\ \E outcome \in SendOutcomes :
          /\ tasks' = [tasks EXCEPT ![k].pc = IF outcome = "raised" THEN "error_text"
                                              ELSE "done"]
          /\ trace' = IF outcome = "written" THEN Append(trace, Sent(k, END)) ELSE trace
    /\ UNCHANGED <<server, websocket, active_tasks, message_history, notServerVars>>

\* except Exception: the apology, then "[END]"; an exception raised here
\* leaves the task
TaskErrorText(k) ==
    /\ tasks[k].pc = "error_text"
    /\ ~tasks[k].cancel_requested
    /\ \E outcome \in SendOutcomes :
          /\ tasks' = [tasks EXCEPT ![k].pc = IF outcome = "raised" THEN "failed"
                                              ELSE "error_end"]
          /\ trace' = IF outcome = "written" THEN Append(trace, Sent(k, ERROR_TEXT))
                      ELSE trace
    /\ UNCHANGED <<server, websocket, active_tasks, message_history, notServerVars>>

TaskErrorEnd(k) ==
    /\ tasks[k].pc = "error_end"
    /\ ~tasks[k].cancel_requested
    /\ \E outcome \in SendOutcomes :
          /\ tasks' = [tasks EXCEPT ![k].pc = IF outcome = "raised" THEN "failed"
                                              ELSE "error_done"]
          /\ trace' = IF outcome = "written" THEN Append(trace, Sent(k, END)) ELSE trace
    /\ UNCHANGED <<server, websocket, active_tasks, message_history, notServerVars>>

NextServer ==
    \/ Connect
    \/ ReceiveText
    \/ Disconnect
    \/ SendPaused
    \/ SendPausedEnd
    \/ \E k \in 1..Len(tasks) : TaskCancelled(k)
    \/ \E k \in 1..Len(tasks) : TaskStart(k)
    \/ \E k \in 1..Len(tasks) : TaskRunStream(k)
    \/ \E k \in 1..Len(tasks) : TaskStreamText(k)
    \/ \E k \in 1..Len(tasks) : TaskSendChunk(k)
    \/ \E k \in 1..Len(tasks) : TaskSendEnd(k)
    \/ \E k \in 1..Len(tasks) : TaskErrorText(k)
    \/ \E k \in 1..Len(tasks) : TaskErrorEnd(k)

SpecServer == InitServer /\ [][NextServer]_vars
(***************************************************************************)
(* C1: for any session, after n update_context calls since the context was *)
(* created, conversation_flow holds exactly the last min(n, 10) calls in   *)
(* call order; after 11 updates its length is 10 and it holds calls 2..11. *)
(***************************************************************************)
TurnOf(t) == [user_message |-> t.user_message, intent |-> t.intent,
              entities |-> t.entities]

FlowOf(calls) == [i \in 1..Len(calls) |-> TurnOf(calls[i])]

SlidingWindow ==
    \A s \in DOMAIN user_contexts :
        LET n    == Len(updates[s])
            flow == user_contexts[s].conversation_flow
        IN  /\ Len(flow) = Min(n, 10)
            /\ \A i \in 1..Len(flow) : flow[i] = TurnOf(updates[s][n - Len(flow) + i])
            /\ n = 11 => /\ Len(flow) = 10
                         /\ flow = FlowOf(SubSeq(updates[s], 2, 11))

SlidingWindowWitness ==
    \E s \in DOMAIN user_contexts :
        /\ Len(updates[s]) = 11
        /\ updates[s][1] # updates[s][11]
        /\ updates[s][1] # updates[s][2]

(***************************************************************************)
(* C2: every stored context has both sequences of length <= 10, of equal   *)
(* length, and entities_history[i] is the entities of conversation_flow[i].*)
(***************************************************************************)
HistoriesAligned ==
    \A s \in DOMAIN user_contexts :
        LET c == user_contexts[s]
        IN  /\ Len(c.entities_history) <= 10
            /\ Len(c.conversation_flow) <= 10
            /\ Len(c.entities_history) = Len(c.conversation_flow)
            /\ \A i \in 1..Len(c.conversation_flow) :
                   c.entities_history[i] = c.conversation_flow[i].entities

HistoriesAlignedWitness ==
    \E s \in DOMAIN user_contexts :
        LET c == user_contexts[s]
        IN  /\ Len(updates[s]) = 11
            /\ Len(c.entities_history) = 10
            /\ c.entities_history[1] # c.entities_history[2]
            /\ lastop.op = "update_context"
            /\ lastop.session_id = s

(***************************************************************************)
(* C3: whenever the message processor is called with a session id, the     *)
(* store is updated for that session with the resolved intent, the         *)
(* extracted entities and the message, so that the session's               *)
(* conversation_flow ends with that turn; without a session id no context  *)
(* is created or changed.                                                  *)
(***************************************************************************)
ProcessUpdatesContext ==
    (pc = "responded" /\ result.status = "returned") =>
        IF request.session_id # None
        THEN /\ request.session_id \in DOMAIN user_contexts
             /\ LET flow == user_contexts[request.session_id].conversation_flow
                IN  /\ flow # <<>>
                    /\ flow[Len(flow)] = [user_message |-> Str(request.message),
                                          intent |-> result.intent,
                                          entities |-> result.entities]
        ELSE user_contexts = EmptyDict

(***************************************************************************)
(* C4: process_message never raises to its caller, whatever the message    *)
(* and the loaded intent configuration (an intent with an empty responses  *)
(* list included): every call returns a result.                            *)
(***************************************************************************)
ProcessNeverRaises ==
    pc = "responded" => result.status = "returned"

(***************************************************************************)
(* C5: process_message consults the fuzzy matcher only when the            *)
(* classifier's intent is none or its confidence is below 0.3, and the     *)
(* returned (intent, confidence) is the fuzzy result if and only if the    *)
(* fuzzy tag is not none and the fuzzy confidence is strictly greater than *)
(* the classifier's; otherwise it is the classifier's pair unchanged.      *)
(***************************************************************************)
FuzzyFallbackRule ==
    (pc = "responded" /\ steps.normalized) =>
        LET p == steps.predicted
            f == steps.fuzzy
            replaced == /\ steps.fuzzy_called
                        /\ f.intent # None
                        /\ f.confidence > p.confidence
        IN  /\ steps.fuzzy_called <=> (p.intent = None \/ p.confidence < 30)
            /\ result.status = "returned" =>
                  /\ replaced => /\ result.intent = f.intent
                                 /\ result.confidence = f.confidence
                  /\ ~replaced => /\ result.intent = p.intent
                                  /\ result.confidence = p.confidence

FuzzyFallbackWitness ==
    /\ pc = "responded"
    /\ result.status = "returned"
    /\ steps.fuzzy_called
    /\ steps.predicted = [intent |-> None, confidence |-> 29]
    /\ steps.fuzzy = [intent |-> "goodbye", confidence |-> 70]
    /\ result.intent = "goodbye"
    /\ result.confidence = 70

(***************************************************************************)
(* C6 as stated: when neither the classifier nor the fuzzy matcher         *)
(* resolves an intent, process_message returns intent none with the fixed  *)
(* clarification, which is the message get_response returns for an         *)
(* unmatched or none tag.                                                  *)
(***************************************************************************)
Unresolved ==
    /\ pc = "responded"
    /\ steps.normalized
    /\ steps.predicted.intent = None
    /\ steps.fuzzy.intent = None

NoEmptyEntityList ==
    pc = "returned" => \A k \in DOMAIN entities : entities[k] # <<>>

(***************************************************************************)
(* C8: extract_entities("Flight AA123 status") returns exactly             *)
(* {flight_numbers: ["AA123"]}.                                            *)
(***************************************************************************)
FlightStatusExample ==
    (pc = "returned" /\ Str(text) = "Flight AA123 status") =>
        entities = [flight_numbers |-> <<"AA123">>]

(***************************************************************************)
(* C9: extract_entities("flights from New York to Los Angeles") returns    *)
(* exactly {cities: ["New York", "Los Angeles"]}.                          *)
(***************************************************************************)
RouteExample ==
    (pc = "returned" /\ Str(text) = "flights from New York to Los Angeles") =>
        entities = [cities |-> <<"New York", "Los Angeles">>]

(***************************************************************************)
(* C10 as stated: extract_entities("book BK007 please") has "BK007" in     *)
(* booking_refs, and booking_refs holds the 6-8 character alphanumeric     *)
(* tokens of the uppercased text minus the values in flight_numbers.       *)
(***************************************************************************)
\* the maximal runs of word characters of s from index i on
RECURSIVE WordRuns(_, _)
WordRuns(s, i) ==
    IF i > Len(s) THEN <<>>
    ELSE IF ~IsWordChar(s[i]) THEN WordRuns(s, i + 1)
    ELSE LET n == Run(s, i, UpperSet \cup LowerSet \cup DigitSet \cup {"_"})
         IN  <<SubSeq(s, i, i + n - 1)>> \o WordRuns(s, i + n)

\* the 6-8 character tokens of the uppercased text made of A-Z and 0-9 only
BookingTokens(txt) ==
    Strs(SelectSeq(WordRuns(upper(txt), 1),
                   LAMBDA w : /\ Len(w) \in 6..8
                              /\ \A i \in 1..Len(w) : w[i] \in UpperSet \cup DigitSet))

ReportedFlights ==
    IF "flight_numbers" \in DOMAIN entities THEN ToSet(entities["flight_numbers"]) ELSE {}

BookingRefsHasBK007 ==
    pc = "returned" =>
        /\ Str(text) = "book BK007 please" =>
              /\ "booking_refs" \in DOMAIN entities
              /\ "BK007" \in ToSet(entities["booking_refs"])
        /\ "booking_refs" \in DOMAIN entities =>
              entities["booking_refs"] = Without(BookingTokens(text), ReportedFlights)

(***************************************************************************)
(* C10 amended: extract_entities("book BK007 please") reports "BK007" in   *)
(* flight_numbers and not in booking_refs, which is ["PLEASE"]; when the   *)
(* uppercased text has a 6-8 character token of A-Z and 0-9, booking_refs  *)
(* holds those tokens in order minus the values in flight_numbers, and     *)
(* otherwise booking_refs is absent.                                       *)
(***************************************************************************)
BookingRefsRule ==
    pc = "returned" =>
        /\ Str(text) = "book BK007 please" =>
              entities = [flight_numbers |-> <<"BK007">>, booking_refs |-> <<"PLEASE">>]
        /\ IF BookingTokens(text) = <<>>
           THEN "booking_refs" \notin DOMAIN entities
           ELSE /\ "booking_refs" \in DOMAIN entities
                /\ entities["booking_refs"] =
                      Without(BookingTokens(text), ReportedFlights)

BookingRefsWitness ==
    /\ pc = "returned"
    /\ Str(text) = "BK007 AA1234 ABC123"
    /\ entities["flight_numbers"] = <<"BK007", "AA1234">>
    /\ entities["booking_refs"] = <<"ABC123">>

(***************************************************************************)
(* C11: when the lowercased text contains " to ", the route is split on    *)
(* the first occurrence only: the departure is what precedes it (fillers   *)
(* stripped) and the arrival is everything after it, later " to "          *)
(* included ("a to b to c" gives arrival "B To C").                        *)
(***************************************************************************)
RouteSplitOnFirst ==
    (pc = "returned" /\ Find(lower(text), SEP_TO, 1) # 0) =>
        LET low == lower(text)
            i   == Find(low, SEP_TO, 1)
            dep == strip(remove(remove(SubSeq(low, 1, i - 1), FLIGHTS_FROM), FLIGHT_FROM))
            arr == strip(SubSeq(low, i + Len(SEP_TO), Len(low)))
        IN  /\ (dep # <<>> /\ arr # <<>>) =>
                  /\ "cities" \in DOMAIN entities
                  /\ entities["cities"] = <<TitleCase(dep), TitleCase(arr)>>
            /\ Str(text) = "a to b to c" =>
                  /\ "cities" \in DOMAIN entities
                  /\ entities["cities"] = <<"A", "B To C">>

(***************************************************************************)
(* C19: sessions are isolated: update_context(s, ...) and clear_context(s) *)
(* leave every other session as it was: its presence in the store and its  *)
(* previous intent, conversation flow and entities history are unchanged.  *)
(***************************************************************************)
OtherSessionsUntouched ==
    lastop.op \in {"update_context", "clear_context"} =>
        \A o \in SessionIds \ {lastop.session_id} :
            /\ (o \in DOMAIN user_contexts) <=> (o \in DOMAIN lastop.before)
            /\ o \in DOMAIN lastop.before =>
                  /\ user_contexts[o].previous_intent = lastop.before[o].previous_intent
                  /\ user_contexts[o].conversation_flow = lastop.before[o].conversation_flow
                  /\ user_contexts[o].entities_history = lastop.before[o].entities_history

\* a session was cleared while another session held recorded turns
OtherSessionsUntouchedWitness ==
    /\ lastop.op = "clear_context"
    /\ lastop.session_id \in DOMAIN lastop.before
    /\ \E o \in SessionIds \ {lastop.session_id} :
          /\ o \in DOMAIN user_contexts
          /\ Len(user_contexts[o].conversation_flow) >= 2

(***************************************************************************)
(* C20: a session context is created on first access (get_context or       *)
(* update_context on an unknown id) with no previous intent and empty      *)
(* histories; get_context on a known id returns the stored context without *)
(* resetting it; get_context and update_context never remove a context;    *)
(* clear_context removes exactly the named session; clearing an unknown    *)
(* session changes nothing.                                                *)
(***************************************************************************)
ContextLifecycle ==
    LET s      == lastop.session_id
        before == lastop.before
    IN  /\ lastop.op \in {"get_context", "update_context"} =>
              /\ DOMAIN user_contexts = DOMAIN before \cup {s}
        /\ (lastop.op = "get_context" /\ s \notin DOMAIN before) =>
              /\ user_contexts[s].previous_intent = None
              /\ user_contexts[s].conversation_flow = <<>>
              /\ user_contexts[s].entities_history = <<>>
        /\ (lastop.op = "update_context" /\ s \notin DOMAIN before) =>
              /\ Len(user_contexts[s].conversation_flow) = 1
              /\ Len(user_contexts[s].entities_history) = 1
        /\ (lastop.op = "get_context" /\ s \in DOMAIN before) =>
              user_contexts[s] = before[s]
        /\ lastop.op = "clear_context" =>
              /\ DOMAIN user_contexts = DOMAIN before \ {s}
              /\ s \notin DOMAIN before => user_contexts = before

\* get_context was called on a session that already held recorded turns
ContextLifecycleWitness ==
    /\ lastop.op = "get_context"
    /\ lastop.session_id \in DOMAIN lastop.before
    /\ Len(lastop.before[lastop.session_id].conversation_flow) >= 2

(***************************************************************************)
(* C12 as stated: fuzzy_match_intent(text, threshold) returns (None, 0.0)  *)
(* when no (intent, pattern) pair scores >= threshold; otherwise it        *)
(* returns the tag owning the maximum score over all pairs with that score *)
(* divided by 100, a value in [0,1]; among pairs sharing the maximum the   *)
(* first in definition order wins.                                         *)
(***************************************************************************)
FirstBest(scores) ==
    LET m == SetMax({scores[k] : k \in DOMAIN scores})
    IN  CHOOSE k \in DOMAIN scores :
            /\ scores[k] = m
            /\ \A j \in DOMAIN scores : scores[j] = m => k <= j

FuzzyMatchRule ==
    call.fn = "fuzzy_match_intent" =>
        LET pairs == PatternPairs(intents_data)
            best  == FirstBest(call.scores)
        IN  IF \A k \in DOMAIN call.scores : call.scores[k] < call.threshold
            THEN call.returned = [intent |-> None, confidence |-> 0]
            ELSE /\ call.returned = [intent |-> pairs[best].tag,
                                     confidence |-> call.scores[best]]
                 /\ call.returned.confidence \in 0..100

(***************************************************************************)
(* C12 amended: fuzzy_match_intent returns (None, 0.0) when no pair scores *)
(* >= threshold or when no pair scores above 0 (a threshold of 0 or less   *)
(* does not make a pair of score 0 a match); otherwise it returns the tag  *)
(* owning the maximum score with that score divided by 100, the first pair *)
(* in definition order winning among equals.                               *)
(***************************************************************************)
FuzzyMatchRulePositive ==
    call.fn = "fuzzy_match_intent" =>
        LET pairs == PatternPairs(intents_data)
            best  == FirstBest(call.scores)
        IN  IF \/ \A k \in DOMAIN call.scores : call.scores[k] < call.threshold
               \/ \A k \in DOMAIN call.scores : call.scores[k] <= 0
            THEN call.returned = [intent |-> None, confidence |-> 0]
            ELSE /\ call.returned = [intent |-> pairs[best].tag,
                                     confidence |-> call.scores[best]]
                 /\ call.returned.confidence \in 1..100

\* two pairs of different intents share the maximum score and the first wins
FuzzyMatchWitness ==
    /\ call.fn = "fuzzy_match_intent"
    /\ call.threshold = FUZZY_THRESHOLD
    /\ \E j, k \in DOMAIN call.scores :
          /\ j < k
          /\ call.scores[j] = 71 /\ call.scores[k] = 71
          /\ \A i \in DOMAIN call.scores : call.scores[i] <= 71
          /\ PatternPairs(intents_data)[j].tag # PatternPairs(intents_data)[k].tag
          /\ call.returned = [intent |-> PatternPairs(intents_data)[j].tag,
                              confidence |-> 71]

(***************************************************************************)
(* C13: predict_intent reports intent none whenever the best class         *)
(* probability is below the 0.3 threshold, still returning that            *)
(* probability as the confidence; at 0.3 or above it returns the class of  *)
(* highest probability, the lexicographically smallest tag among equals.   *)
(***************************************************************************)
TagRank(t) == CHOOSE i \in 1..Len(TagOrder) : TagOrder[i] = t

PredictIntentRule ==
    (/\ call.fn = "predict_intent"
     /\ ~call.pre.raised
     /\ ~call.outcome.raised) =>
        LET p       == call.outcome.probabilities
            classes == classes_(intents_data)
            m       == SetMax({p[i] : i \in DOMAIN p})
            top     == {classes[i] : i \in {j \in DOMAIN p : p[j] = m}}
        IN  /\ ~call.returned.raised
            /\ call.returned.confidence = m
            /\ IF m < 30
               THEN call.returned.intent = None
               ELSE /\ call.returned.intent \in top
                    /\ \A t \in top :
                          TagRank(call.returned.intent) <= TagRank(t)

\* two classes share the highest probability, which passes the threshold
PredictIntentWitness ==
    /\ call.fn = "predict_intent"
    /\ ~call.pre.raised
    /\ ~call.outcome.raised
    /\ intents_data = LoadedIntents
    /\ call.outcome.probabilities = <<0, 50, 0, 50>>
    /\ call.returned.intent = "flight_status"
    /\ call.returned.confidence = 50

(***************************************************************************)
(* C14: any runtime failure during prediction inside predict_intent, a     *)
(* failure while normalizing the text included, is caught and converted to *)
(* (intent none, confidence 0.0); it never propagates to the caller.       *)
(***************************************************************************)
PredictFailuresCaught ==
    call.fn = "predict_intent" =>
        /\ ~call.returned.raised
        /\ (call.pre.raised \/ call.outcome.raised) =>
              /\ call.returned.intent = None
              /\ call.returned.confidence = 0

(***************************************************************************)
(* C17: get_response(tag) returns an element of the responses list of the  *)
(* first intent definition whose tag equals the argument; if no definition *)
(* has that tag (tag none included) it returns the fixed clarification     *)
(* message; it never returns a response of a different intent.             *)
(***************************************************************************)
GetResponseRule ==
    call.fn = "get_response" =>
        LET hits == {i \in 1..Len(intents_data) :
                        intents_data[i].tag = call.intent_tag}
        IN  /\ ~call.returned.raised
            /\ IF hits = {}
               THEN call.returned.value = NOT_SURE_HOW
               ELSE LET first == CHOOSE i \in hits : \A j \in hits : i <= j
                    IN  \E k \in 1..Len(intents_data[first].responses) :
                           call.returned.value = intents_data[first].responses[k]

(***************************************************************************)
(* C15: startup follows a cache-or-recompute policy.  If the model         *)
(* artifact exists it is loaded and used with no training and no write; if *)
(* it is absent the model is trained from the loaded intents and the       *)
(* artifact is written exactly once.  In both cases intents are loaded     *)
(* before the model, and after a successful startup a model is present and *)
(* the artifact exists, so that a second startup performs no training,     *)
(* even if the intent configuration changed in between.                    *)
(***************************************************************************)
Count(seq, e) == Cardinality({i \in 1..Len(seq) : seq[i] = e})

Position(seq, e) == CHOOSE i \in 1..Len(seq) : seq[i] = e

ModelEvents == {"load_model", "train_model", "write_model"}

CacheOrRecompute ==
    /\ \* nothing touches the model before the intents are loaded
       \A i \in 1..Len(events) :
          events[i] \in ModelEvents => Position(events, "load_intents") < i
    /\ Count(events, "write_model") <= 1
    /\ (pc \in {"model", "ready", "failed"} /\ boot.model_file.exists) =>
          /\ Count(events, "train_model") = 0
          /\ Count(events, "write_model") = 0
          /\ model_file = boot.model_file
    /\ (pc = "ready" /\ boot.model_file.exists) =>
          /\ Count(events, "load_model") = 1
          /\ pipeline = [present |-> TRUE, trained_on |-> boot.model_file.content]
    /\ (pc = "ready" /\ ~boot.model_file.exists) =>
          /\ Count(events, "load_model") = 0
          /\ Count(events, "train_model") = 1
          /\ Count(events, "write_model") = 1
          /\ pipeline = [present |-> TRUE, trained_on |-> intents_data]
    /\ pc = "ready" =>
          /\ pipeline.present
          /\ model_file = FileOf(pipeline.trained_on)

\* a second startup found the artifact of the first and loaded it, although
\* the intent configuration had been changed in between
CacheOrRecomputeWitness ==
    /\ pc = "ready"
    /\ nstarts = 2
    /\ boot.model_file.exists
    /\ intents_data = LoadedIntents
    /\ pipeline = [present |-> TRUE, trained_on |-> BasicIntents]
    /\ events = <<"load_intents", "load_model">>

(***************************************************************************)
(* C16: if the intent configuration source is missing at startup no error  *)
(* is surfaced: the processor synthesizes the built-in default of exactly  *)
(* two intents (greeting, flight_status), persists it at the same location *)
(* and uses it as intents_data; if the source is present it is used as is  *)
(* and is not rewritten.                                                   *)
(***************************************************************************)
IntentsSourcePolicy ==
    /\ pc = "failed" => events[Len(events)] = "train_model"
    /\ (pc \in {"model", "ready", "failed"} /\ ~boot.intents_file.exists) =>
          /\ Len(intents_data) = 2
          /\ intents_data[1].tag = "greeting"
          /\ intents_data[2].tag = "flight_status"
          /\ intents_file = FileOf(intents_data)
          /\ Count(events, "write_intents") = 1
    /\ (pc \in {"model", "ready", "failed"} /\ boot.intents_file.exists) =>
          /\ intents_data = boot.intents_file.content
          /\ intents_file = boot.intents_file
          /\ Count(events, "write_intents") = 0
          /\ Count(events, "create_basic_intents") = 0

\* intents.json was deleted after a first run; the next startup recreated it
IntentsSourceWitness ==
    /\ pc = "ready"
    /\ nstarts = 2
    /\ ~boot.intents_file.exists
    /\ intents_file = FileOf(BasicIntents)
    /\ intents_data = BasicIntents
    /\ pipeline.trained_on = LoadedIntents

(***************************************************************************)
(* C18: concurrent calls for one session behave as if serialized: under    *)
(* every interleaving of two update_context calls on one session, after    *)
(* both finish neither turn is lost (both appear in conversation_flow and  *)
(* entities_history, subject to the 10-entry cap) and the two sequences    *)
(* have equal length; concurrent first accesses to a new session id yield  *)
(* a single context.                                                       *)
(***************************************************************************)
AllDone == \A t \in Threads : threads[t].pc = "done"

\* the store after the call of thread t ran alone on the store 'contexts'
SerialCall(contexts, t) ==
    IF threads[t].op = "update_context"
    THEN update_context(contexts, SharedSession, ThreadTurn[t].intent,
                        ThreadTurn[t].entities, ThreadTurn[t].user_message)
    ELSE get_context(contexts, SharedSession)

SerialStores ==
    { SerialCall(SerialCall(store0, "t1"), "t2"),
      SerialCall(SerialCall(store0, "t2"), "t1") }

SerializedUpdates ==
    AllDone =>
        /\ Stored \in SerialStores
        /\ Len(Stored[SharedSession].conversation_flow)
              = Len(Stored[SharedSession].entities_history)
        /\ \A t \in Threads :
              /\ threads[t].context = refs[SharedSession]
              /\ threads[t].op = "update_context" =>
                    \E i \in 1..Len(Stored[SharedSession].conversation_flow) :
                       Stored[SharedSession].conversation_flow[i].user_message
                          = ThreadTurn[t].user_message

(***************************************************************************)
(* C22: the confidence returned by process_message is always within [0,1]  *)
(* (0..100 hundredths), whichever path produced it: the classifier's       *)
(* probability, the 0.0 of a prediction failure, or a fuzzy score of 0-100 *)
(* divided by 100.                                                         *)
(***************************************************************************)
ConfidenceInUnitInterval ==
    (pc = "responded" /\ result.status = "returned") =>
        /\ result.confidence \in 0..100
        /\ steps.predicted.confidence \in 0..100
        /\ steps.fuzzy.confidence \in 0..100

\* the returned confidence is a fuzzy score of 100, returned as 1.0, after the
\* classifier failed
ConfidenceInUnitIntervalWitness ==
    /\ pc = "responded"
    /\ result.status = "returned"
    /\ steps.fuzzy_called
    /\ steps.predicted = [intent |-> None, confidence |-> 0]
    /\ steps.fuzzy.confidence = 100
    /\ result.confidence = 100

(***************************************************************************)
(* C26: every result of process_message satisfies: intent is not none if   *)
(* and only if confidence >= 0.3.  A classifier intent has confidence      *)
(* >= 0.3, an adopted fuzzy intent has confidence >= 0.70, a none intent   *)
(* carries a confidence below 0.3; so whenever the fallback fuzzy matcher  *)
(* (default threshold 70) returns a tag, that tag is adopted.              *)
(***************************************************************************)
IntentIffConfident ==
    (pc = "responded" /\ result.status = "returned") =>
        /\ (result.intent # None) <=> (result.confidence >= 30)
        /\ steps.predicted.intent # None => steps.predicted.confidence >= 30
        /\ (steps.fuzzy_called /\ steps.fuzzy.intent # None) =>
              /\ steps.fuzzy.confidence >= 70
              /\ result.intent = steps.fuzzy.intent
              /\ result.confidence = steps.fuzzy.confidence
        /\ result.intent = None => result.confidence < 30

\* the classifier stayed just below the threshold and the fuzzy tag, found at
\* exactly the default threshold, was adopted
IntentIffConfidentWitness ==
    /\ pc = "responded"
    /\ result.status = "returned"
    /\ steps.predicted = [intent |-> None, confidence |-> 29]
    /\ steps.fuzzy = [intent |-> "flight_status", confidence |-> 70]
    /\ result.intent = "flight_status"
    /\ result.confidence = 70

(***************************************************************************)
(* C23: get_airport_code resolves its input in the documented order: empty *)
(* input gives "N/A"; a 3-character all-uppercase input is returned        *)
(* unchanged without any lookup; otherwise a case-insensitive exact hit in *)
(* the city-to-IATA dictionary gives that code; otherwise the first backup *)
(* airport whose city contains the input (case-insensitive substring)      *)
(* gives its code; otherwise the uppercased input is returned.  An earlier *)
(* step that applies always wins over a later one.                         *)
(***************************************************************************)
\* the 1-based positions at which sub occurs in s
Occurrences(s, sub) ==
    {p \in 1..(Len(s) - Len(sub) + 1) :
        \A k \in 1..Len(sub) : s[p + k - 1] = sub[k]}

AirportCodeOrder ==
    call.fn = "get_airport_code" =>
        LET x        == call.city_or_code
            low      == lower(x)
            empty    == x = <<>>
            is_code  == /\ Len(x) = 3
                        /\ \A i \in 1..3 : x[i] \notin LowerSet
                        /\ \E i \in 1..3 : x[i] \in UpperSet
            in_dict  == Str(low) \in DOMAIN city_to_iata
            contains == {i \in 1..Len(backup_airports) :
                            Occurrences(lower(backup_airports[i].city), low) # {}}
        IN  /\ empty => call.returned = "N/A"
            /\ (~empty /\ is_code) => call.returned = Str(x)
            /\ (~empty /\ ~is_code /\ in_dict) =>
                  call.returned = city_to_iata[Str(low)]
            /\ (~empty /\ ~is_code /\ ~in_dict /\ contains # {}) =>
                  \E i \in contains :
                     /\ \A j \in contains : i <= j
                     /\ call.returned = backup_airports[i].iata_code
            /\ (~empty /\ ~is_code /\ ~in_dict /\ contains = {}) =>
                  call.returned = Str(upper(x))

\* "DAL" is returned as it is, although "dal" is part of the backup city
\* "Dallas" (DFW)
AirportCodeOrderWitness ==
    /\ call.fn = "get_airport_code"
    /\ Str(call.city_or_code) = "DAL"
    /\ call.returned = "DAL"
    /\ get_airport_code(lower(call.city_or_code)) = "DFW"

(***************************************************************************)
(* C29: after any sequence of create_booking calls on a MockBookingSystem  *)
(* every stored booking's key equals its booking_id; each create_booking   *)
(* stores its booking under an id that was not present before (no existing *)
(* booking, preloaded or created, is overwritten and the number of         *)
(* bookings grows by exactly one); find_booking of the returned id in any  *)
(* letter case returns that booking.                                       *)
(***************************************************************************)
BookingIdsFresh ==
    /\ \A k \in DOMAIN booking_table : booking_table[k].booking_id = k
    /\ call.fn = "create_booking" =>
          LET id == call.returned.booking_id
          IN  /\ id \notin DOMAIN call.before
              /\ DOMAIN booking_table = DOMAIN call.before \cup {id}
              /\ Cardinality(DOMAIN booking_table) = Cardinality(DOMAIN call.before) + 1
              /\ \A k \in DOMAIN call.before : booking_table[k] = call.before[k]
              /\ booking_table[id] = call.returned
              /\ \A spelled \in CaseVariants(id) :
                    find_booking(booking_table, spelled) = call.returned
    /\ (call.fn = "find_booking" /\ upper(call.booking_id) \in DOMAIN booking_table) =>
          call.returned = booking_table[upper(call.booking_id)]

\* the second booking created was found again under its id in lower case
BookingIdsFreshWitness ==
    /\ call.fn = "find_booking"
    /\ Str(call.booking_id) = "bk005"
    /\ Str(call.returned.booking_id) = "BK005"
    /\ Cardinality(DOMAIN booking_table) >= 6

(***************************************************************************)
(* C21: for every pattern of every intent in the configuration the model   *)
(* was trained on, predict_intent on that pattern yields that pattern's    *)
(* own tag with confidence >= 0.3, the built-in default pattern "hi",      *)
(* whose normalized form is the empty string, included.  The formula       *)
(* states it for the patterns whose normalized form has no feature, for    *)
(* which the classifier's answer does not depend on library arithmetic.    *)
(***************************************************************************)
OwnTags(intents, txt) ==
    {PatternPairs(intents)[k].tag : k \in {j \in 1..Len(PatternPairs(intents)) :
        PatternChars[PatternPairs(intents)[j].pattern] = txt}}

PatternsPredictOwnTag ==
    (/\ call.fn = "predict_intent"
     /\ ~call.pre.raised
     /\ OwnTags(intents_data, call.text) # {}
     /\ preprocess_text(call.text) = <<>>) =>
        /\ ~call.returned.raised
        /\ call.returned.intent \in OwnTags(intents_data, call.text)
        /\ call.returned.confidence >= 30

(***************************************************************************)
(* C24: in the authenticated server a connection whose access_token cookie *)
(* is missing or does not decode to a username is closed with code 1008    *)
(* before being accepted; no session id is allocated for it, no message is *)
(* received or processed and no streaming task is created.                 *)
(***************************************************************************)
CarriesUsername(token) ==
    /\ token.form = "jwt"
    /\ token.key = SECRET_KEY
    /\ token.alg = ALGORITHM
    /\ ~token.expired
    /\ "sub" \in DOMAIN token.claims
    /\ token.claims.sub \notin {None, ""}

Unauthenticated ==
    /\ server = "airly4"
    /\ websocket.pc # "connecting"
    /\ ~CarriesUsername(cookies_get(websocket.cookies))

CookieProtected ==
    Unauthenticated =>
        /\ websocket.pc = "closed"
        /\ websocket.close_code = 1008
        /\ ~websocket.accepted
        /\ websocket.session_id = None
        /\ active_tasks = EmptyDict
        /\ tasks = <<>>
        /\ message_history = <<>>
        /\ trace = <<>>

CookieProtectedWitness ==
    /\ Unauthenticated
    /\ cookies_get(websocket.cookies) = Jwt("another key", ALGORITHM, FALSE, [sub |-> "alice"])
    /\ websocket.close_code = 1008

(***************************************************************************)
(* C25: message_history is extended only after a response stream has run   *)
(* to completion: a response that is cancelled by __PAUSE__ or that fails  *)
(* with an exception leaves message_history unchanged, and each completed  *)
(* response extends it exactly once.                                       *)
(***************************************************************************)
TaskStopped == {"cancelled", "error_text", "error_end", "error_done", "failed"}

HistoryOnlyOfCompleted ==
    \A k \in 1..Len(tasks) :
        /\ tasks[k].pc \in TaskStopped => Count(message_history, k) = 0
        /\ tasks[k].pc = "done" => Count(message_history, k) = 1

\* C25 as the code has it: message_history is extended at the moment a
\* response stream ends, once: a response cancelled or failing before its
\* stream has ended leaves it unchanged, and a response whose stream has
\* ended has extended it exactly once, whether or not it is cancelled or
\* fails afterwards, while "[END]" is still to be sent.
HistoryOnlyOfStreamed ==
    \A k \in 1..Len(tasks) :
        /\ Count(message_history, k) = IF tasks[k].streamed THEN 1 ELSE 0
        /\ tasks[k].pc = "done" => tasks[k].streamed
        /\ tasks[k].pc \in {"created", "run_stream", "stream_text"} => ~tasks[k].streamed

HistoryOnlyOfStreamedWitness ==
    \E j, k \in 1..Len(tasks) :
        /\ tasks[j].pc = "done"
        /\ tasks[k].pc = "cancelled"
        /\ tasks[k].chunks > 0
        /\ ~tasks[k].streamed
        /\ message_history = <<j>>

(***************************************************************************)
(* C27: the server sends at most one "[END]" per user chat message: in     *)
(* every reachable state the number of "[END]" markers sent does not       *)
(* exceed the number of non-pause messages received, a __PAUSE__ arriving  *)
(* after the response has finished included.                               *)
(***************************************************************************)
EndsSent == Cardinality({i \in 1..Len(trace) : trace[i].ev = "send" /\ trace[i].data = END})

ChatsReceived ==
    Cardinality({i \in 1..Len(trace) : trace[i].ev = "receive" /\ trace[i].data # Str(PAUSE)})

OneEndPerMessage == EndsSent <= ChatsReceived

(***************************************************************************)
(* C28: after a __PAUSE__ has been handled for a session, no streaming     *)
(* task started for an earlier message of that session sends any further   *)
(* chunk or "[END]", also when a second message was sent while the first   *)
(* response was still streaming.                                           *)
(***************************************************************************)
\* the position in the trace of the message task k was created for
CreatedAt(k) ==
    CHOOSE i \in 1..Len(trace) :
        /\ trace[i].ev = "receive"
        /\ trace[i].data # Str(PAUSE)
        /\ Cardinality({h \in 1..i : trace[h].ev = "receive" /\ trace[h].data # Str(PAUSE)}) = k

PauseStopsEarlierTasks ==
    \A i, j \in 1..Len(trace) :
        (/\ i < j
         /\ trace[i] = Sent(0, END)
         /\ trace[j].ev = "send"
         /\ trace[j].by > 0) => CreatedAt(trace[j].by) > i
====
